---- MODULE Spec2Model ----
(***************************************************************************)
(* FitGenius: the AI-result cache, the stable key hasher, the retry       *)
(* policy, the single-flight guard of the report view and the same-day    *)
(* log merge, modelled from src/services/geminiService.ts,                *)
(* src/components/AnalysisReport.tsx, src/components/ExerciseDetail.tsx,  *)
(* src/components/AICoach.tsx and src/unnamed/part_000 (App).             *)
(*                                                                         *)
(* Strings the code computes on are sequences of one-character strings;   *)
(* Code gives the UTF-16 code unit that charCodeAt returns.               *)
(***************************************************************************)
EXTENDS Integers, Sequences, FiniteSets, TLC

VARIABLES
    payloadA, payloadB,   \* SpecKey: two payload objects, fields in insertion order
    keyA, keyB,           \* SpecKey: the keys computed for them (<<>> before)
    cw,                   \* SpecRetry: one run of callWithRetry
    logs,                 \* App: the logs state, most recent first
    addPending,           \* App: handleAddLog calls awaiting backend.addWorkoutLog
    syncStatus,           \* App: 'idle' | 'syncing' | 'synced' | 'error'
    idleTimers,           \* App: pending setTimeout(() => setSyncStatus('idle'))
    nextId,               \* the next value of Date.now() used as a log id
    store,                \* sessionStorage: item name -> stored string
    cacheOp,              \* SpecCache: the completion of the last Cache.get / Cache.set
    activeView,           \* App: 'dashboard' | 'coach' | 'report' | 'exercises'
    viewLogs,             \* App: the logs as the AI views read them (their dates)
    profile,              \* App: the profile fields the AI requesters read
    ar,                   \* the AnalysisReport instance: state and refs
    ed,                   \* the ExerciseDetail instance
    coach,                \* the AICoach instance
    requests,             \* AI requester calls awaiting callWithRetry
    nextReq,              \* the id of the next requester call
    switches,             \* view switches so far
    wl,                   \* the WorkoutLogger form: state, ref and pending timer
    dash,                 \* the Dashboard: its profile prop and what it renders
    session,              \* the token, App's authentication state, backend calls
    form,                 \* the WorkoutLogger as App opens it: its submissions
    fg_logs               \* the mock backend's stored log list (localStorage 'fg_logs')

keyVars == <<payloadA, payloadB, keyA, keyB>>
retryVars == <<cw>>
logVars == <<logs, addPending, syncStatus, idleTimers, nextId>>
cacheVars == <<store, cacheOp>>
appVars == <<activeView, viewLogs, profile, ar, ed, coach, requests, nextReq,
             switches>>
restVars == <<wl, dash, session, form, fg_logs>>
vars == <<keyVars, retryVars, logVars, cacheVars, appVars, restVars>>

(***************************************************************************)
(* Characters and JSON text                                                *)
(***************************************************************************)
Code ==
    ("a" :> 97) @@ ("c" :> 99) @@ ("e" :> 101) @@ ("g" :> 103) @@ ("l" :> 108)
    @@ ("n" :> 110) @@ ("o" :> 111) @@ ("p" :> 112) @@ ("r" :> 114)
    @@ ("t" :> 116) @@ ("u" :> 117) @@ ("C" :> 67) @@ ("_" :> 95)
    @@ ("-" :> 45) @@ ("{" :> 123) @@ ("}" :> 125) @@ ("\"" :> 34)
    @@ (":" :> 58) @@ ("," :> 44)
    @@ ("0" :> 48) @@ ("1" :> 49) @@ ("2" :> 50) @@ ("3" :> 51) @@ ("4" :> 52)
    @@ ("5" :> 53) @@ ("6" :> 54) @@ ("7" :> 55) @@ ("8" :> 56) @@ ("9" :> 57)
    @@ ("zeng" :> 22686) @@ ("ji" :> 32908) @@ ("jian" :> 20943)
    @@ ("zhi" :> 33026) @@ ("zhong" :> 20013) @@ ("jiji" :> 32423)
    @@ ("D" :> 68) @@ ("T" :> 84) @@ ("Z" :> 90) @@ ("s" :> 115)
    @@ ("i" :> 105) @@ ("h" :> 104) @@ ("v" :> 118) @@ ("w" :> 119)
    @@ ("y" :> 121)

DigitChar == <<"0", "1", "2", "3", "4", "5", "6", "7", "8", "9">>

RECURSIVE NatText(_)
NatText(n) ==
    IF n < 10 THEN <<DigitChar[n + 1]>>
    ELSE NatText(n \div 10) \o <<DigitChar[(n % 10) + 1]>>

MinInt32 == -2147483647 - 1

\* Number -> decimal text, as a template literal or JSON.stringify renders it
IntText(n) ==
    IF n >= 0 THEN NatText(n)
    ELSE IF n = MinInt32 THEN <<"-", "2", "1", "4", "7", "4", "8", "3", "6", "4", "8">>
    ELSE <<"-">> \o NatText(-n)

\* A JSON value of a payload field: a number or a string
NumVal(n) == [t |-> "num", n |-> n]
StrVal(s) == [t |-> "str", s |-> s]

ValueText(v) ==
    IF v.t = "num" THEN IntText(v.n) ELSE <<"\"">> \o v.s \o <<"\"">>

\* JSON.stringify of an object: own string-keyed properties in insertion order
RECURSIVE MembersText(_)
MembersText(obj) ==
    IF obj = <<>> THEN <<>>
    ELSE LET m == <<"\"">> \o obj[1].k \o <<"\"", ":">> \o ValueText(obj[1].v)
         IN IF Len(obj) = 1 THEN m ELSE m \o <<",">> \o MembersText(Tail(obj))

JSONstringifyObject(obj) == <<"{">> \o MembersText(obj) \o <<"}">>

(***************************************************************************)
(* Cache.stableKey                                                         *)
(***************************************************************************)
Two16 == 65536

\* hash = ((hash << 5) - hash) + c; hash |= 0, on 16-bit halves so that no
\* intermediate value leaves the 32-bit range
HashStep(hash, c) ==
    LET lo  == hash % Two16
        hi  == (hash \div Two16) % Two16
        lo2 == lo * 31 + c
        hi2 == (hi * 31 + (lo2 \div Two16)) % Two16
        lo3 == lo2 % Two16
    IN IF hi2 >= 32768 THEN (hi2 - Two16) * Two16 + lo3 ELSE hi2 * Two16 + lo3

\* for (let i = 0; i < str.length; i++) ...; each iteration's hash is an int32
\* (the membership test makes TLC evaluate it before the next iteration)
RECURSIVE HashFrom(_, _)
HashFrom(hash, str) ==
    IF str = <<>> THEN hash
    ELSE LET h == HashStep(hash, Code[Head(str)])
         IN IF h \in Int THEN HashFrom(h, Tail(str)) ELSE 0

stableKey(prefix, data) ==
    prefix \o <<"_">> \o IntText(HashFrom(0, JSONstringifyObject(data)))


(***************************************************************************)
(* SpecKey: stableKey applied to two payload objects                       *)
(***************************************************************************)
MaxFields == 2

NameLogCount == <<"l", "o", "g", "C", "o", "u", "n", "t">>
NameAge == <<"a", "g", "e">>
NameGoal == <<"g", "o", "a", "l">>
PrefixReport == <<"r", "e", "p", "o", "r", "t">>

GoalMuscleGain == <<"zeng", "ji">>
GoalWeightLoss == <<"jian", "zhi">>

FieldValues ==
    [k \in {NameLogCount, NameAge, NameGoal} |->
        IF k = NameLogCount THEN {NumVal(1), NumVal(3)}
        ELSE IF k = NameAge THEN {NumVal(28)}
        ELSE {StrVal(GoalMuscleGain), StrVal(GoalWeightLoss)}]

Member == UNION {[k : {f}, v : FieldValues[f]] : f \in DOMAIN FieldValues}

\* Objects built by assigning at most MaxFields distinct fields, in any order
Payloads ==
    UNION {{o \in [1..n -> Member] :
               \A i, j \in 1..n : i # j => o[i].k # o[j].k} : n \in 1..MaxFields}

\* Equality by deep value: the same fields carrying the same values
DeepEqual(p, q) == {p[i] : i \in DOMAIN p} = {q[i] : i \in DOMAIN q}

KeyInit ==
    /\ payloadA \in Payloads
    /\ payloadB \in Payloads
    /\ keyA = <<>>
    /\ keyB = <<>>

KeyQuiet ==
    /\ payloadA = <<>>
    /\ payloadB = <<>>
    /\ keyA = <<>>
    /\ keyB = <<>>

ComputeKeyA ==
    /\ payloadA # <<>>
    /\ keyA' = stableKey(PrefixReport, payloadA)
    /\ UNCHANGED <<payloadA, payloadB, keyB, retryVars, logVars, cacheVars, appVars,
                   restVars>>

ComputeKeyB ==
    /\ payloadB # <<>>
    /\ keyB' = stableKey(PrefixReport, payloadB)
    /\ UNCHANGED <<payloadA, payloadB, keyA, retryVars, logVars, cacheVars, appVars,
                   restVars>>

(***************************************************************************)
(* callWithRetry                                                           *)
(***************************************************************************)
\* An optional value (a missing property, undefined): None or Some(x)
None == <<>>
Some(x) == <<x>>

RECURSIVE includes(_, _)
includes(str, sub) ==
    IF Len(sub) > Len(str) THEN FALSE
    ELSE IF SubSeq(str, 1, Len(sub)) = sub THEN TRUE
    ELSE includes(Tail(str), sub)

Text429 == <<"4", "2", "9">>

\* const errorMsg = error?.message || ""
errorMsgOf(error) == IF error.message = None THEN <<>> ELSE error.message[1]

is429(error) ==
    \/ includes(errorMsgOf(error), Text429)
    \/ error.status = Some(429)
    \/ error.code = Some(429)

\* let lastError; for (let i = 0; i < maxRetries; i++) { try { return await fn() ...
CwEnter(c, maxRetries) ==
    IF 0 < maxRetries
    THEN [c EXCEPT !.pc = "calling", !.maxRetries = maxRetries, !.i = 0,
                   !.calls = 1]
    ELSE [c EXCEPT !.pc = "thrown", !.maxRetries = maxRetries, !.i = 0,
                   !.thrown = c.lastError]

CwIdle ==
    [pc |-> "idle", maxRetries |-> 0, i |-> 0, lastError |-> None,
     calls |-> 0, sleeps |-> 0, value |-> None, thrown |-> None, errs |-> <<>>]

callWithRetry(maxRetries) == CwEnter(CwIdle, maxRetries)

\* return await fn()
CwFnResolved(c, value) == [c EXCEPT !.pc = "returned", !.value = Some(value)]

\* (a catch block that backs off on every error, not only on 429)
CwFnRejected_RetryAny(c, error) ==
    LET c1 == [c EXCEPT !.lastError = Some(error), !.errs = Append(@, error)]
    IN IF c.i = c.maxRetries - 1
       THEN [c1 EXCEPT !.pc = "thrown", !.thrown = Some(error)]
       ELSE [c1 EXCEPT !.pc = "sleeping", !.sleeps = @ + 1]

\* (a last-attempt test that is off by one: i === maxRetries - 2)
CwFnRejected_LastAttemptOffByOne(c, error) ==
    LET c1 == [c EXCEPT !.lastError = Some(error), !.errs = Append(@, error)]
    IN IF is429(error)
       THEN IF c.i = c.maxRetries - 2
            THEN [c1 EXCEPT !.pc = "thrown", !.thrown = Some(error)]
            ELSE [c1 EXCEPT !.pc = "sleeping", !.sleeps = @ + 1]
       ELSE [c1 EXCEPT !.pc = "thrown", !.thrown = Some(error)]

\* catch (error) { lastError = error; ... }
CwFnRejected(c, error) ==
    LET c1 == [c EXCEPT !.lastError = Some(error), !.errs = Append(@, error)]
    IN IF is429(error)
       THEN IF c.i = c.maxRetries - 1
            THEN [c1 EXCEPT !.pc = "thrown", !.thrown = Some(error)]
            ELSE [c1 EXCEPT !.pc = "sleeping", !.sleeps = @ + 1]
       ELSE [c1 EXCEPT !.pc = "thrown", !.thrown = Some(error)]

\* the setTimeout resolves: continue; i++; i < maxRetries ? fn() : throw lastError
CwTimerFired(c) ==
    IF c.i + 1 < c.maxRetries
    THEN [c EXCEPT !.pc = "calling", !.i = @ + 1, !.calls = @ + 1]
    ELSE [c EXCEPT !.pc = "thrown", !.i = @ + 1, !.thrown = c.lastError]

(***************************************************************************)
(* SpecRetry: one callWithRetry run with any attempt budget and outcomes   *)
(***************************************************************************)
MaxAttempts == 3

Messages ==
    {None, Some(<<>>), Some(Text429), Some(<<"e", "4", "2", "9", "1">>),
     Some(<<"4", "2", "5", "9">>)}
Statuses == {None, Some(429), Some(500)}
ErrCodes == {None, Some(429)}
ErrorShapes == [message : Messages, status : Statuses, code : ErrCodes]
FnValues == {"v1", "v2"}

\* The error object of the attempt: its shape and its identity
ErrorOf(shape, attempt) ==
    [id |-> attempt, message |-> shape.message, status |-> shape.status,
     code |-> shape.code]

RetryInit == cw = CwIdle

RetryStart ==
    /\ cw.pc = "idle"
    /\ \E n \in 0..MaxAttempts : cw' = callWithRetry(n)
    /\ UNCHANGED <<keyVars, logVars, cacheVars, appVars, restVars>>

RetryFnResolves ==
    /\ cw.pc = "calling"
    /\ \E v \in FnValues : cw' = CwFnResolved(cw, v)
    /\ UNCHANGED <<keyVars, logVars, cacheVars, appVars, restVars>>

RetryFnRejects ==
    /\ cw.pc = "calling"
    /\ \E s \in ErrorShapes : cw' = CwFnRejected(cw, ErrorOf(s, cw.calls))
    /\ UNCHANGED <<keyVars, logVars, cacheVars, appVars, restVars>>

RetryTimerFires ==
    /\ cw.pc = "sleeping"
    /\ cw' = CwTimerFired(cw)
    /\ UNCHANGED <<keyVars, logVars, cacheVars, appVars, restVars>>

(***************************************************************************)
(* App.handleAddLog: the same-day merge of the local log list              *)
(***************************************************************************)
SlotsPerDay == 2      \* instants distinguished within one day
TzOffset == 1         \* local time minus UTC, in slots

\* new Date(date).toDateString(): the local calendar day of an ISO instant
toDateString(date) == (date + TzOffset) \div SlotsPerDay

NotesSeparator == <<" ", "|", " ">>

\* x || 0
OrZero(x) == IF x = 0 THEN 0 ELSE x

\* (a lookup that compares the instants instead of their calendar days)
findExistingIndex_ExactDate(prevLogs, newLog) ==
    LET hits == {i \in 1..Len(prevLogs) : prevLogs[i].date = newLog.date}
    IN IF hits = {} THEN 0 ELSE CHOOSE i \in hits : \A j \in hits : i <= j

\* prevLogs.findIndex(l => new Date(l.date).toDateString() === newLogDate);
\* 0 stands for the -1 of findIndex (sequences are 1-based)
findExistingIndex(prevLogs, newLog) ==
    LET newLogDate == toDateString(newLog.date)
        hits == {i \in 1..Len(prevLogs) : toDateString(prevLogs[i].date) = newLogDate}
    IN IF hits = {} THEN 0 ELSE CHOOSE i \in hits : \A j \in hits : i <= j

\* (a merge that appends the separator even for empty incoming notes)
mergeLog_AlwaysSeparator(existing, newLog) ==
    [existing EXCEPT
        !.duration = OrZero(existing.duration) + newLog.duration,
        !.calories = OrZero(existing.calories) + newLog.calories,
        !.exercises = existing.exercises \o newLog.exercises,
        !.notes = existing.notes \o NotesSeparator \o newLog.notes]

\* (a merge that takes the date of the incoming log)
mergeLog_NewDate(existing, newLog) ==
    [existing EXCEPT
        !.date = newLog.date,
        !.duration = OrZero(existing.duration) + newLog.duration,
        !.calories = OrZero(existing.calories) + newLog.calories,
        !.exercises = existing.exercises \o newLog.exercises,
        !.notes = existing.notes \o
                    (IF newLog.notes # <<>> THEN NotesSeparator \o newLog.notes
                     ELSE <<>>)]

\* { ...existing, duration: ..., calories: ..., exercises: ..., notes: ... }
mergeLog(existing, newLog) ==
    [existing EXCEPT
        !.duration = OrZero(existing.duration) + newLog.duration,
        !.calories = OrZero(existing.calories) + newLog.calories,
        !.exercises = existing.exercises \o newLog.exercises,
        !.notes = existing.notes \o
                    (IF newLog.notes # <<>> THEN NotesSeparator \o newLog.notes
                     ELSE <<>>)]

\* (an updater that puts a new day's log at the end of the list)
addLogUpdater_Append(prevLogs, newLog) ==
    LET existingIndex == findExistingIndex(prevLogs, newLog)
    IN IF existingIndex >= 1
       THEN [prevLogs EXCEPT ![existingIndex] = mergeLog(prevLogs[existingIndex], newLog)]
       ELSE prevLogs \o <<newLog>>

\* the updater passed to setLogs
addLogUpdater(prevLogs, newLog) ==
    LET existingIndex == findExistingIndex(prevLogs, newLog)
    IN IF existingIndex >= 1
       THEN [prevLogs EXCEPT ![existingIndex] = mergeLog(prevLogs[existingIndex], newLog)]
       ELSE <<newLog>> \o prevLogs

MaxAdds == 3          \* handleAddLog calls in one run
MaxDate == 3          \* the latest instant a log can carry

\* What the logger submits: a session with notes, and one without notes
\* whose calories field was left empty
LogBodies ==
    { [title |-> "t1", duration |-> 30, calories |-> 200, exercises |-> <<"A">>,
       notes |-> <<"x">>],
      [title |-> "t2", duration |-> 20, calories |-> 0, exercises |-> <<"B">>,
       notes |-> <<>>] }

NewLog(id, date, body) ==
    [id |-> id, date |-> date, title |-> body.title, duration |-> body.duration,
     calories |-> body.calories, notes |-> body.notes, exercises |-> body.exercises]

LogInit ==
    /\ logs = <<>>
    /\ addPending = {}
    /\ syncStatus = "idle"
    /\ idleTimers = 0
    /\ nextId = 1

\* handleAddLog up to its await: setSyncStatus('syncing'); backend.addWorkoutLog(newLog)
HandleAddLog ==
    /\ nextId <= MaxAdds
    /\ \E date \in 0..MaxDate, body \in LogBodies :
          addPending' = addPending \cup {NewLog(nextId, date, body)}
    /\ nextId' = nextId + 1
    /\ syncStatus' = "syncing"
    /\ UNCHANGED <<logs, idleTimers, keyVars, retryVars, cacheVars, appVars,
                   restVars>>

\* the await resolves: setLogs(updater); setSyncStatus('synced'); setTimeout(...)
AddLogSaved ==
    /\ \E newLog \in addPending :
          /\ addPending' = addPending \ {newLog}
          /\ logs' = addLogUpdater(logs, newLog)
    /\ syncStatus' = "synced"
    /\ idleTimers' = idleTimers + 1
    /\ UNCHANGED <<nextId, keyVars, retryVars, cacheVars, appVars, restVars>>

\* the await rejects: catch (e) { setSyncStatus('error') }
AddLogFailed ==
    /\ \E newLog \in addPending : addPending' = addPending \ {newLog}
    /\ syncStatus' = "error"
    /\ UNCHANGED <<logs, idleTimers, nextId, keyVars, retryVars, cacheVars, appVars,
                   restVars>>

\* setTimeout(() => setSyncStatus('idle'), 3000) fires
SyncTimerFires ==
    /\ idleTimers > 0
    /\ idleTimers' = idleTimers - 1
    /\ syncStatus' = "idle"
    /\ UNCHANGED <<logs, addPending, nextId, keyVars, retryVars, cacheVars, appVars,
                   restVars>>

(***************************************************************************)
(* Cache.get and Cache.set over sessionStorage                             *)
(***************************************************************************)
\* What a call completes with: a thrown exception or a returned value
Return(value) == [threw |-> FALSE, value |-> value]
Throw == [threw |-> TRUE, value |-> None]

\* The AI results: parsed JSON objects; null is None, an object o is Some(o)
NameScore == <<"s", "c", "o", "r", "e">>
Scores == {80, 95}
ResultObject(score) == <<[k |-> NameScore, v |-> NumVal(score)]>>
WithGoal(obj, goal) == obj \o <<[k |-> NameGoal, v |-> StrVal(goal)]>>
Goals == {GoalMuscleGain, GoalWeightLoss}
KnownObjects ==
    {ResultObject(n) : n \in Scores}
        \cup {WithGoal(ResultObject(n), g) : n \in Scores, g \in Goals}

TextNull == <<"n", "u", "l", "l">>
TextTruncated == <<"{", "\"", "s", "c", "o", "r", "e", "\"", ":">>

\* JSON.stringify of an AI result
JSONstringify(value) ==
    IF value = None THEN TextNull ELSE JSONstringifyObject(value[1])


\* The texts of the AI results, computed once
KnownTexts == {<<o, JSONstringifyObject(o)>> : o \in KnownObjects}

\* JSON.parse: the value a text denotes, or a SyntaxError
JSONparse(text) ==
    IF text = TextNull THEN Return(None)
    ELSE IF \E row \in KnownTexts : row[2] = text
         THEN Return(Some((CHOOSE row \in KnownTexts : row[2] = text)[1]))
         ELSE Throw

\* `fg_cache_${key}`
ItemName(key) == <<"f", "g", "_", "c", "a", "c", "h", "e", "_">> \o key

\* sessionStorage.getItem: the stored string or null
getItem(st, name) == IF name \in DOMAIN st THEN Some(st[name]) ELSE None

\* sessionStorage.setItem
setItem(st, name, text) == (name :> text) @@ st

\* (Cache.get without its try/catch)
Cache_get_NoCatch(st, key, readFails) ==
    IF readFails THEN Throw
    ELSE LET data == getItem(st, ItemName(key))
         IN IF data # None /\ data[1] # <<>> THEN JSONparse(data[1])
            ELSE Return(None)

\* Cache.get; readFails: sessionStorage.getItem raises
Cache_get(st, key, readFails) ==
    LET tried ==
            IF readFails THEN Throw
            ELSE LET data == getItem(st, ItemName(key))
                 IN IF data # None /\ data[1] # <<>> THEN JSONparse(data[1])
                    ELSE Return(None)
    IN IF tried.threw THEN Return(None) ELSE tried

\* (Cache.set without its try/catch)
Cache_set_NoCatch(st, key, value, writeFails) ==
    IF writeFails THEN [threw |-> TRUE, store |-> st]
    ELSE [threw |-> FALSE, store |-> setItem(st, ItemName(key), JSONstringify(value))]

\* Cache.set; writeFails: sessionStorage.setItem raises (quota exceeded)
Cache_set(st, key, value, writeFails) ==
    LET tried ==
            IF writeFails THEN [threw |-> TRUE, store |-> st]
            ELSE [threw |-> FALSE,
                  store |-> setItem(st, ItemName(key), JSONstringify(value))]
    IN [threw |-> FALSE, store |-> tried.store]

(***************************************************************************)
(* SpecCache: Cache.get and Cache.set on any stored contents               *)
(***************************************************************************)
TestKeys == {<<"r", "_", "1">>, <<"r", "_", "2">>}
StoredTexts == {<<>>, TextNull, TextTruncated, JSONstringifyObject(ResultObject(80))}
CacheValues == {None} \cup {Some(ResultObject(n)) : n \in Scores}

\* The last cache operation: what it was given, what it found and what it did
NoCacheOp ==
    [op |-> "none", key |-> <<>>, threw |-> FALSE, value |-> None,
     failed |-> FALSE, before |-> None, stored |-> <<>>, text |-> None]

CacheQuiet ==
    /\ store = <<>>
    /\ cacheOp = NoCacheOp

CacheInit ==
    /\ \E present \in SUBSET TestKeys :
          store \in [{ItemName(k) : k \in present} -> StoredTexts]
    /\ cacheOp = NoCacheOp

CacheGet ==
    /\ \E key \in TestKeys, readFails \in BOOLEAN :
          LET done == Cache_get(store, key, readFails)
          IN cacheOp' = [op |-> "get", key |-> key, threw |-> done.threw,
                         value |-> done.value, failed |-> readFails,
                         before |-> getItem(store, ItemName(key)),
                         stored |-> store, text |-> None]
    /\ UNCHANGED <<store, keyVars, retryVars, logVars, appVars, restVars>>

CacheSet ==
    /\ \E key \in TestKeys, value \in CacheValues, writeFails \in BOOLEAN :
          LET done == Cache_set(store, key, value, writeFails)
          IN /\ store' = done.store
             /\ cacheOp' = [op |-> "set", key |-> key, threw |-> done.threw,
                            value |-> value, failed |-> writeFails,
                            before |-> getItem(store, ItemName(key)),
                            stored |-> store, text |-> None]
    /\ UNCHANGED <<keyVars, retryVars, logVars, appVars, restVars>>

(***************************************************************************)
(* The AI requesters (geminiService.ts)                                    *)
(***************************************************************************)
NameLastDate == <<"l", "a", "s", "t", "D", "a", "t", "e">>
NameLevel == <<"l", "e", "v", "e", "l">>
NameWeight == <<"w", "e", "i", "g", "h", "t">>
PrefixPlan == <<"p", "l", "a", "n">>
PrefixAnalysis == <<"a", "n", "a", "l", "y", "s", "i", "s">>
PrefixInsight == <<"i", "n", "s", "i", "g", "h", "t", "_", "v", "2", "_">>

TwoDigits(n) == <<DigitChar[(n \div 10) + 1], DigitChar[(n % 10) + 1]>>

\* Date.prototype.toISOString, to the hour: 2024-01-DDTHHZ
toISOString(date) ==
    <<"2", "0", "2", "4", "-", "0", "1", "-">> \o TwoDigits(1 + date \div SlotsPerDay)
        \o <<"T">> \o TwoDigits(date % SlotsPerDay) \o <<"Z">>

\* logs[0]?.date || ''
lastLogDate(lg) == IF lg = <<>> THEN <<>> ELSE toISOString(lg[1])

reportKeyOf(lg, pf) ==
    stableKey(PrefixReport,
        <<[k |-> NameLogCount, v |-> NumVal(Len(lg))],
          [k |-> NameLastDate, v |-> StrVal(lastLogDate(lg))],
          [k |-> NameAge, v |-> NumVal(pf.age)],
          [k |-> NameGoal, v |-> StrVal(pf.goal)]>>)

analysisKeyOf(lg, pf) ==
    stableKey(PrefixAnalysis,
        <<[k |-> NameLogCount, v |-> NumVal(Len(lg))],
          [k |-> NameLastDate, v |-> StrVal(lastLogDate(lg))],
          [k |-> NameGoal, v |-> StrVal(pf.goal)]>>)

planKeyOf(pf) ==
    stableKey(PrefixPlan,
        <<[k |-> NameGoal, v |-> StrVal(pf.goal)],
          [k |-> NameLevel, v |-> StrVal(pf.fitnessLevel)],
          [k |-> NameWeight, v |-> NumVal(pf.weight)]>>)

InsightKey(exerciseName) == PrefixInsight \o exerciseName

\* The logs the views are given (the instants of their dates, latest first):
\* none, one log, and a second log added on a later day
ViewLogs == {<<>>, <<0>>, <<2, 0>>}

InitialProfile ==
    [age |-> 28, weight |-> 75, goal |-> GoalMuscleGain,
     fitnessLevel |-> <<"zhong", "jiji">>]

Profiles == {[InitialProfile EXCEPT !.goal = g] : g \in Goals}

\* The keys of all inputs, computed once
ReportKeys == {<<lg, pf, reportKeyOf(lg, pf)>> : lg \in ViewLogs, pf \in Profiles}
AnalysisKeys == {<<lg, pf, analysisKeyOf(lg, pf)>> : lg \in ViewLogs, pf \in Profiles}
PlanKeys == {<<pf, planKeyOf(pf)>> : pf \in Profiles}

ReportKey(lg, pf) == (CHOOSE row \in ReportKeys : row[1] = lg /\ row[2] = pf)[3]
AnalysisKey(lg, pf) == (CHOOSE row \in AnalysisKeys : row[1] = lg /\ row[2] = pf)[3]
PlanKey(pf) == (CHOOSE row \in PlanKeys : row[1] = pf)[2]

\* A requester up to its callWithRetry: either it returns at once (no logs,
\* or a cached value) or it goes remote under cacheKey
Immediate(value) == [remote |-> FALSE, value |-> value, key |-> <<>>]
Remote(cacheKey) == [remote |-> TRUE, value |-> None, key |-> cacheKey]

generateTrainingReport(lg, pf, st) ==
    IF Len(lg) = 0 THEN Immediate(None)
    ELSE LET cacheKey == ReportKey(lg, pf)
             cached == Cache_get(st, cacheKey, FALSE).value
         IN IF cached # None THEN Immediate(cached) ELSE Remote(cacheKey)

analyzeWorkoutHistory(lg, pf, st) ==
    IF Len(lg) = 0 THEN Immediate(None)
    ELSE LET cacheKey == AnalysisKey(lg, pf)
             cached == Cache_get(st, cacheKey, FALSE).value
         IN IF cached # None THEN Immediate(cached) ELSE Remote(cacheKey)

\* (generateFitnessPlan without the cache lookup)
generateFitnessPlan_NoCacheLookup(pf, st) == Remote(PlanKey(pf))

generateFitnessPlan(pf, st) ==
    LET cacheKey == PlanKey(pf)
        cached == Cache_get(st, cacheKey, FALSE).value
    IN IF cached # None THEN Immediate(cached) ELSE Remote(cacheKey)

getExerciseInsight(exerciseName, st) ==
    LET cacheKey == InsightKey(exerciseName)
        cached == Cache_get(st, cacheKey, FALSE).value
    IN IF cached # None THEN Immediate(cached) ELSE Remote(cacheKey)

DefaultMaxRetries == 2

\* The requester call that went remote: callWithRetry(async () => {...})
NewRequest(id, kind, inst, cacheKey, goal) ==
    [id |-> id, kind |-> kind, inst |-> inst, key |-> cacheKey, goal |-> goal,
     cw |-> callWithRetry(DefaultMaxRetries)]

\* What ai.models.generateContent can answer: response.text (empty: no text)
AITexts ==
    {JSONstringifyObject(ResultObject(n)) : n \in Scores} \cup {<<>>, TextTruncated}

ShapeRateLimit == [message |-> Some(Text429), status |-> Some(429), code |-> None]
ShapeServer == [message |-> Some(<<"5", "0", "0">>), status |-> Some(500), code |-> None]
ShapeSyntax == [message |-> Some(<<"J", "S", "O", "N">>), status |-> None, code |-> None]
ShapeQuota == [message |-> Some(<<"q", "u", "o", "t", "a">>), status |-> None, code |-> None]
RemoteErrorShapes == {ShapeRateLimit, ShapeServer}

\* The body of the callback after generateContent answered with text:
\* if (response.text) { result = JSON.parse(...); Cache.set(cacheKey, result);
\* return result } return null
FnAfterResponse(r, text, st, writeFails) ==
    IF text # <<>>
    THEN LET parsed == JSONparse(text)
             result == IF r.kind = "plan"
                       THEN Some(WithGoal(IF parsed.value = None THEN <<>>
                                          ELSE parsed.value[1], r.goal))
                       ELSE parsed.value
             written == Cache_set(st, r.key, result, writeFails)
         IN IF parsed.threw
            THEN [rejected |-> TRUE, shape |-> ShapeSyntax, value |-> None,
                  store |-> st]
            ELSE IF written.threw
            THEN [rejected |-> TRUE, shape |-> ShapeQuota, value |-> None,
                  store |-> written.store]
            ELSE [rejected |-> FALSE, shape |-> ShapeQuota, value |-> result,
                  store |-> written.store]
    ELSE [rejected |-> FALSE, shape |-> ShapeQuota, value |-> None, store |-> st]

\* callWithRetry(...).catch(() => null): what the requester returns
RequesterReturn(c) == IF c.pc = "returned" THEN c.value[1] ELSE None

\* SpecCache: generateTrainingReport misses the cache under key, the model
\* answers with text and the requester runs to its return
RequesterFetches ==
    /\ \E key \in TestKeys, text \in AITexts, writeFails \in BOOLEAN :
          LET r == NewRequest(0, "report", 0, key, GoalMuscleGain)
              fn == FnAfterResponse(r, text, store, writeFails)
              cw2 == IF fn.rejected
                     THEN CwFnRejected(r.cw, ErrorOf(fn.shape, r.cw.calls))
                     ELSE CwFnResolved(r.cw, fn.value)
          IN /\ Cache_get(store, key, FALSE).value = None
             /\ store' = fn.store
             /\ cacheOp' = [op |-> "fetch", key |-> key, threw |-> FALSE,
                            value |-> RequesterReturn(cw2), failed |-> writeFails,
                            before |-> getItem(store, ItemName(key)),
                            stored |-> store, text |-> Some(text)]
    /\ UNCHANGED <<keyVars, retryVars, logVars, appVars, restVars>>

(***************************************************************************)
(* AnalysisReport (components/AnalysisReport.tsx)                          *)
(***************************************************************************)
NoRun == [key |-> None, outcome |-> "none"]

\* (lastRun records how the last fetchReport ended, lastCall how the last
\* awaited call of the instance ended)
ArUnmounted(inst) ==
    [mounted |-> FALSE, inst |-> inst, report |-> None, loading |-> FALSE,
     errorMsg |-> "", isFetching |-> FALSE, lastFetchedKey |-> None,
     lastRun |-> NoRun, lastCall |-> None]

ArMounted(inst) == [ArUnmounted(inst) EXCEPT !.mounted = TRUE]

\* (a fetchReport whose flags are cleared in the try block only)
ArAfterAwait_NoFinally(a, currentKey, done) ==
    IF ~done.threw /\ done.value # None
    THEN [a EXCEPT !.report = done.value, !.lastFetchedKey = Some(currentKey),
                   !.loading = FALSE, !.isFetching = FALSE]
    ELSE [a EXCEPT !.errorMsg = "failed"]

\* the try / catch / finally around await generateTrainingReport(logs, profile)
ArAfterAwait(a, currentKey, done) ==
    LET a1 == IF done.threw
              THEN [a EXCEPT !.errorMsg =
                        IF includes(errorMsgOf(done.error), Text429)
                        THEN "rate-limit" ELSE "unavailable"]
              ELSE IF done.value # None
              THEN [a EXCEPT !.report = done.value,
                             !.lastFetchedKey = Some(currentKey)]
              ELSE [a EXCEPT !.errorMsg = "failed"]
    IN [a1 EXCEPT !.loading = FALSE, !.isFetching = FALSE]

Returned(value) == [threw |-> FALSE, value |-> value, error |-> ShapeServer]

\* (fetchReport without the isFetchingRef check)
fetchReport_NoBusyCheck(a, lg, pf, st, reqs, nid) ==
    LET currentKey == ReportKey(lg, pf)
        cached == Cache_get(st, currentKey, FALSE).value
        call == generateTrainingReport(lg, pf, st)
        ran(outcome) == [key |-> Some(currentKey), outcome |-> outcome]
    IN IF Len(lg) = 0
       THEN [ar |-> [a EXCEPT !.lastRun = [key |-> None, outcome |-> "nologs"]],
             requests |-> reqs, nextReq |-> nid]
       ELSE IF a.lastFetchedKey = Some(currentKey) /\ a.report # None
       THEN [ar |-> [a EXCEPT !.lastRun = ran("held")],
             requests |-> reqs, nextReq |-> nid]
       ELSE IF cached # None
       THEN [ar |-> [a EXCEPT !.report = cached,
                              !.lastFetchedKey = Some(currentKey),
                              !.errorMsg = "", !.lastRun = ran("cached")],
             requests |-> reqs, nextReq |-> nid]
       ELSE LET a1 == [a EXCEPT !.isFetching = TRUE, !.loading = TRUE,
                                !.errorMsg = "", !.lastRun = ran("issued")]
            IN IF call.remote
               THEN [ar |-> a1,
                     requests |-> reqs \cup
                        {NewRequest(nid, "report", a.inst, call.key, pf.goal)},
                     nextReq |-> nid + 1]
               ELSE [ar |-> ArAfterAwait(a1, currentKey, Returned(call.value)),
                     requests |-> reqs, nextReq |-> nid]

\* (fetchReport with the isFetchingRef check before the cache lookup)
fetchReport_BusyBeforeCache(a, lg, pf, st, reqs, nid) ==
    LET currentKey == ReportKey(lg, pf)
        ran(outcome) == [key |-> Some(currentKey), outcome |-> outcome]
    IN IF Len(lg) > 0 /\ ~(a.lastFetchedKey = Some(currentKey) /\ a.report # None)
          /\ a.isFetching
       THEN [ar |-> [a EXCEPT !.lastRun = ran("busy")],
             requests |-> reqs, nextReq |-> nid]
       ELSE fetchReport_NoBusyCheck(a, lg, pf, st, reqs, nid)

\* fetchReport up to its await (or to its end when it returns early)
fetchReport(a, lg, pf, st, reqs, nid) ==
    LET currentKey == ReportKey(lg, pf)
        cached == Cache_get(st, currentKey, FALSE).value
        call == generateTrainingReport(lg, pf, st)
        ran(outcome) == [key |-> Some(currentKey), outcome |-> outcome]
    IN IF Len(lg) = 0
       THEN [ar |-> [a EXCEPT !.lastRun = [key |-> None, outcome |-> "nologs"]],
             requests |-> reqs, nextReq |-> nid]
       ELSE IF a.lastFetchedKey = Some(currentKey) /\ a.report # None
       THEN [ar |-> [a EXCEPT !.lastRun = ran("held")],
             requests |-> reqs, nextReq |-> nid]
       ELSE IF cached # None
       THEN [ar |-> [a EXCEPT !.report = cached,
                              !.lastFetchedKey = Some(currentKey),
                              !.errorMsg = "", !.lastRun = ran("cached")],
             requests |-> reqs, nextReq |-> nid]
       ELSE IF a.isFetching
       THEN [ar |-> [a EXCEPT !.lastRun = ran("busy")],
             requests |-> reqs, nextReq |-> nid]
       ELSE LET a1 == [a EXCEPT !.isFetching = TRUE, !.loading = TRUE,
                                !.errorMsg = "", !.lastRun = ran("issued")]
            IN IF call.remote
               THEN [ar |-> a1,
                     requests |-> reqs \cup
                        {NewRequest(nid, "report", a.inst, call.key, pf.goal)},
                     nextReq |-> nid + 1]
               ELSE [ar |-> ArAfterAwait(a1, currentKey, Returned(call.value)),
                     requests |-> reqs, nextReq |-> nid]

\* the effect's dependency list: [logs.length, profile.age, profile.goal]
ArDeps(lg, pf) == <<Len(lg), pf.age, pf.goal>>

(***************************************************************************)
(* ExerciseDetail (components/ExerciseDetail.tsx)                          *)
(***************************************************************************)
ExerciseNames == << <<"A">>, <<"B">> >>

\* the distinct exercise names of the logs, in order of first appearance;
\* every log of the view carries the exercises A and B
allExercises(lg) == IF lg = <<>> THEN <<>> ELSE ExerciseNames

\* (shownFor records the key of the call whose result was applied last)
EdUnmounted(inst) ==
    [mounted |-> FALSE, inst |-> inst, selectedExercise |-> <<>>,
     insight |-> None, loadingInsight |-> FALSE, error |-> FALSE,
     shownFor |-> <<>>]

EdMounted(inst) == [EdUnmounted(inst) EXCEPT !.mounted = TRUE]

\* if (data) setInsight(data); else setError(true); setLoadingInsight(false)
EdAfterAwait(e, data) ==
    IF data # None
    THEN [e EXCEPT !.insight = data, !.loadingInsight = FALSE]
    ELSE [e EXCEPT !.error = TRUE, !.loadingInsight = FALSE]

\* the effect on [selectedExercise]: fetchInsight up to its await
fetchInsight(e, st, reqs, nid) ==
    LET e1 == [e EXCEPT !.loadingInsight = TRUE, !.error = FALSE, !.insight = None]
        call == getExerciseInsight(e.selectedExercise, st)
    IN IF e.selectedExercise = <<>>
       THEN [ed |-> e, requests |-> reqs, nextReq |-> nid]
       ELSE IF call.remote
       THEN [ed |-> e1,
             requests |-> reqs \cup
                {NewRequest(nid, "insight", e.inst, call.key, <<>>)},
             nextReq |-> nid + 1]
       ELSE [ed |-> [EdAfterAwait(e1, call.value) EXCEPT
                       !.shownFor = InsightKey(e.selectedExercise)],
             requests |-> reqs, nextReq |-> nid]

\* the effect on [logs]: the initial selection, then the effect it triggers
EdLogsEffect(e, lg, st, reqs, nid) ==
    IF Len(allExercises(lg)) > 0 /\ e.selectedExercise = <<>>
    THEN fetchInsight([e EXCEPT !.selectedExercise = allExercises(lg)[1]],
                      st, reqs, nid)
    ELSE [ed |-> e, requests |-> reqs, nextReq |-> nid]

(***************************************************************************)
(* AICoach (components/AICoach.tsx)                                        *)
(***************************************************************************)
CoachUnmounted(inst) ==
    [mounted |-> FALSE, inst |-> inst, loading |-> FALSE, draftPlan |-> None,
     advice |-> None]

CoachMounted(inst) == [CoachUnmounted(inst) EXCEPT !.mounted = TRUE]

\* setDraftPlan(result); setLoading(false)
CoachAfterPlan(c, result) == [c EXCEPT !.draftPlan = result, !.loading = FALSE]

\* setAdvice(result); setLoading(false)
CoachAfterAnalysis(c, result) == [c EXCEPT !.advice = result, !.loading = FALSE]

handleGeneratePlan(c, pf, st, reqs, nid) ==
    LET c1 == [c EXCEPT !.loading = TRUE]
        call == generateFitnessPlan(pf, st)
    IN IF call.remote
       THEN [coach |-> c1,
             requests |-> reqs \cup {NewRequest(nid, "plan", c.inst, call.key, pf.goal)},
             nextReq |-> nid + 1]
       ELSE [coach |-> CoachAfterPlan(c1, call.value), requests |-> reqs,
             nextReq |-> nid]

handleAnalyze(c, lg, pf, st, reqs, nid) ==
    LET c1 == [c EXCEPT !.loading = TRUE]
        call == analyzeWorkoutHistory(lg, pf, st)
    IN IF call.remote
       THEN [coach |-> c1,
             requests |-> reqs \cup
                {NewRequest(nid, "analysis", c.inst, call.key, pf.goal)},
             nextReq |-> nid + 1]
       ELSE [coach |-> CoachAfterAnalysis(c1, call.value), requests |-> reqs,
             nextReq |-> nid]

(***************************************************************************)
(* Spec: the views, the requesters and the cache together                  *)
(***************************************************************************)
MaxRequests == 2      \* requester calls that go remote in one run
MaxSwitches == 3      \* view switches in one run

AppInit ==
    /\ activeView = "dashboard"
    /\ viewLogs = <<>>
    /\ profile = InitialProfile
    /\ ar = ArUnmounted(0)
    /\ ed = EdUnmounted(0)
    /\ coach = CoachUnmounted(0)
    /\ requests = {}
    /\ nextReq = 1
    /\ switches = 0

otherVars == <<keyVars, retryVars, logVars, cacheOp, restVars>>

\* setActiveView('report'): the shown view unmounts, AnalysisReport mounts
\* and its effect runs
ShowReport ==
    /\ activeView # "report"
    /\ switches < MaxSwitches
    /\ LET run == fetchReport(ArMounted(ar.inst + 1), viewLogs, profile, store,
                              requests, nextReq)
       IN /\ run.nextReq <= MaxRequests + 1
          /\ ar' = run.ar
          /\ requests' = run.requests
          /\ nextReq' = run.nextReq
    /\ activeView' = "report"
    /\ ed' = EdUnmounted(ed.inst)
    /\ coach' = CoachUnmounted(coach.inst)
    /\ switches' = switches + 1
    /\ UNCHANGED <<viewLogs, profile, store, otherVars>>

\* setActiveView('exercises'): ExerciseDetail mounts and its effects run
ShowExercises ==
    /\ activeView # "exercises"
    /\ switches < MaxSwitches
    /\ LET run == EdLogsEffect(EdMounted(ed.inst + 1), viewLogs, store, requests,
                               nextReq)
       IN /\ run.nextReq <= MaxRequests + 1
          /\ ed' = run.ed
          /\ requests' = run.requests
          /\ nextReq' = run.nextReq
    /\ activeView' = "exercises"
    /\ ar' = ArUnmounted(ar.inst)
    /\ coach' = CoachUnmounted(coach.inst)
    /\ switches' = switches + 1
    /\ UNCHANGED <<viewLogs, profile, store, otherVars>>

\* setActiveView('coach'): AICoach mounts
ShowCoach ==
    /\ activeView # "coach"
    /\ switches < MaxSwitches
    /\ activeView' = "coach"
    /\ coach' = CoachMounted(coach.inst + 1)
    /\ ar' = ArUnmounted(ar.inst)
    /\ ed' = EdUnmounted(ed.inst)
    /\ switches' = switches + 1
    /\ UNCHANGED <<viewLogs, profile, requests, nextReq, store, otherVars>>

\* setActiveView('dashboard')
ShowDashboard ==
    /\ activeView # "dashboard"
    /\ switches < MaxSwitches
    /\ activeView' = "dashboard"
    /\ ar' = ArUnmounted(ar.inst)
    /\ ed' = EdUnmounted(ed.inst)
    /\ coach' = CoachUnmounted(coach.inst)
    /\ switches' = switches + 1
    /\ UNCHANGED <<viewLogs, profile, requests, nextReq, store, otherVars>>

\* the logs state changes; the mounted view re-renders and the effects whose
\* dependencies changed run
LogsChange ==
    /\ \E lg \in ViewLogs \ {viewLogs} :
          /\ viewLogs' = lg
          /\ IF ar.mounted /\ ArDeps(lg, profile) # ArDeps(viewLogs, profile)
             THEN LET run == fetchReport(ar, lg, profile, store, requests, nextReq)
                  IN /\ run.nextReq <= MaxRequests + 1
                     /\ ar' = run.ar
                     /\ requests' = run.requests
                     /\ nextReq' = run.nextReq
                     /\ ed' = ed
             ELSE IF ed.mounted
             THEN LET run == EdLogsEffect(ed, lg, store, requests, nextReq)
                  IN /\ run.nextReq <= MaxRequests + 1
                     /\ ed' = run.ed
                     /\ requests' = run.requests
                     /\ nextReq' = run.nextReq
                     /\ ar' = ar
             ELSE UNCHANGED <<ar, ed, requests, nextReq>>
    /\ UNCHANGED <<activeView, profile, coach, switches, store, otherVars>>

\* the goal is changed in the profile form (setProfile)
ProfileChange ==
    /\ \E goal \in Goals \ {profile.goal} :
          LET pf == [profile EXCEPT !.goal = goal]
          IN /\ profile' = pf
             /\ IF ar.mounted
                THEN LET run == fetchReport(ar, viewLogs, pf, store, requests, nextReq)
                     IN /\ run.nextReq <= MaxRequests + 1
                        /\ ar' = run.ar
                        /\ requests' = run.requests
                        /\ nextReq' = run.nextReq
                ELSE UNCHANGED <<ar, requests, nextReq>>
    /\ UNCHANGED <<activeView, viewLogs, ed, coach, switches, store, otherVars>>

\* another exercise is chosen in the select of ExerciseDetail
SelectExercise ==
    /\ ed.mounted
    /\ \E i \in 1..Len(allExercises(viewLogs)) :
          /\ allExercises(viewLogs)[i] # ed.selectedExercise
          /\ LET run == fetchInsight(
                            [ed EXCEPT !.selectedExercise = allExercises(viewLogs)[i]],
                            store, requests, nextReq)
             IN /\ run.nextReq <= MaxRequests + 1
                /\ ed' = run.ed
                /\ requests' = run.requests
                /\ nextReq' = run.nextReq
    /\ UNCHANGED <<activeView, viewLogs, profile, ar, coach, switches, store,
                   otherVars>>

\* the generate button of AICoach (rendered while not loading and no draft)
GeneratePlan ==
    /\ coach.mounted
    /\ ~coach.loading
    /\ coach.draftPlan = None
    /\ LET run == handleGeneratePlan(coach, profile, store, requests, nextReq)
       IN /\ run.nextReq <= MaxRequests + 1
          /\ coach' = run.coach
          /\ requests' = run.requests
          /\ nextReq' = run.nextReq
    /\ UNCHANGED <<activeView, viewLogs, profile, ar, ed, switches, store,
                   otherVars>>

\* the analyze / refresh button of AICoach (rendered while not loading)
Analyze ==
    /\ coach.mounted
    /\ ~coach.loading
    /\ coach.advice # None \/ Len(viewLogs) > 0
    /\ LET run == handleAnalyze(coach, viewLogs, profile, store, requests, nextReq)
       IN /\ run.nextReq <= MaxRequests + 1
          /\ coach' = run.coach
          /\ requests' = run.requests
          /\ nextReq' = run.nextReq
    /\ UNCHANGED <<activeView, viewLogs, profile, ar, ed, switches, store,
                   otherVars>>

\* the requester call r ends with cw2: either it sleeps before the next attempt
\* or it returns to the code after the await in its caller
Settle(r, cw2) ==
    IF cw2.pc \in {"sleeping", "calling"}
    THEN /\ requests' = (requests \ {r}) \cup {[r EXCEPT !.cw = cw2]}
         /\ UNCHANGED <<ar, ed, coach>>
    ELSE LET value == RequesterReturn(cw2)
         IN /\ requests' = requests \ {r}
            /\ ar' = IF r.kind = "report" /\ ar.mounted /\ ar.inst = r.inst
                     THEN [ArAfterAwait(ar, r.key, Returned(value)) EXCEPT
                             !.lastCall =
                                Some([pc |-> cw2.pc, calls |-> cw2.calls,
                                      obtained |-> value # None,
                                      rateLimited |-> /\ cw2.pc = "thrown"
                                                      /\ is429(cw2.thrown[1])])]
                     ELSE ar
            /\ ed' = IF r.kind = "insight" /\ ed.mounted /\ ed.inst = r.inst
                     THEN [EdAfterAwait(ed, value) EXCEPT !.shownFor = r.key]
                     ELSE ed
            /\ coach' = IF r.kind = "plan" /\ coach.mounted /\ coach.inst = r.inst
                        THEN CoachAfterPlan(coach, value)
                        ELSE IF r.kind = "analysis" /\ coach.mounted
                                /\ coach.inst = r.inst
                        THEN CoachAfterAnalysis(coach, value)
                        ELSE coach

\* generateContent answers the outstanding call of r
RemoteResolves ==
    /\ \E r \in requests, text \in AITexts, writeFails \in BOOLEAN :
          /\ r.cw.pc = "calling"
          /\ LET fn == FnAfterResponse(r, text, store, writeFails)
                 cw2 == IF fn.rejected
                        THEN CwFnRejected(r.cw, ErrorOf(fn.shape, r.cw.calls))
                        ELSE CwFnResolved(r.cw, fn.value)
             IN /\ store' = fn.store
                /\ Settle(r, cw2)
    /\ UNCHANGED <<activeView, viewLogs, profile, nextReq, switches, otherVars>>

\* generateContent answers r with the text of a result, which is parsed and
\* returned (the remote call succeeds)
RemoteSucceeds ==
    /\ \E r \in requests, text \in AITexts, writeFails \in BOOLEAN :
          /\ r.cw.pc = "calling"
          /\ LET fn == FnAfterResponse(r, text, store, writeFails)
             IN /\ ~fn.rejected
                /\ fn.value # None
                /\ store' = fn.store
                /\ Settle(r, CwFnResolved(r.cw, fn.value))
    /\ UNCHANGED <<activeView, viewLogs, profile, nextReq, switches, otherVars>>

\* generateContent fails
RemoteRejects ==
    /\ \E r \in requests, shape \in RemoteErrorShapes :
          /\ r.cw.pc = "calling"
          /\ Settle(r, CwFnRejected(r.cw, ErrorOf(shape, r.cw.calls)))
    /\ UNCHANGED <<activeView, viewLogs, profile, nextReq, switches, store, otherVars>>

\* the backoff timer of r fires
BackoffTimerFires ==
    /\ \E r \in requests :
          /\ r.cw.pc = "sleeping"
          /\ Settle(r, CwTimerFired(r.cw))
    /\ UNCHANGED <<activeView, viewLogs, profile, nextReq, switches, store, otherVars>>

(***************************************************************************)
(* SpecRequesters: the four AI requesters called directly by any caller    *)
(***************************************************************************)
RequesterKinds == {"plan", "analysis", "report", "insight"}

\* What a requester call did: the key it computed (<<>> when it returned
\* before computing one) and what it returned at once
Called(kind, cacheKey, value) ==
    [op |-> kind, key |-> cacheKey, threw |-> FALSE, value |-> value,
     failed |-> FALSE, before |-> None, stored |-> store, text |-> None]

\* a requester is called: it either returns at once or goes remote
RequesterCalled(kind, cacheKey, call) ==
    /\ IF call.remote
       THEN /\ nextReq <= MaxRequests
            /\ requests' = requests \cup
                  {NewRequest(nextReq, kind, 0, call.key, profile.goal)}
            /\ nextReq' = nextReq + 1
       ELSE UNCHANGED <<requests, nextReq>>
    /\ cacheOp' = Called(kind, cacheKey, call.value)
    /\ UNCHANGED <<store, activeView, viewLogs, profile, ar, ed, coach, switches,
                   keyVars, retryVars, logVars, restVars>>

CallGenerateFitnessPlan ==
    RequesterCalled("plan", PlanKey(profile), generateFitnessPlan(profile, store))

CallAnalyzeWorkoutHistory ==
    RequesterCalled("analysis",
                    IF Len(viewLogs) = 0 THEN <<>> ELSE AnalysisKey(viewLogs, profile),
                    analyzeWorkoutHistory(viewLogs, profile, store))

CallGenerateTrainingReport ==
    RequesterCalled("report",
                    IF Len(viewLogs) = 0 THEN <<>> ELSE ReportKey(viewLogs, profile),
                    generateTrainingReport(viewLogs, profile, store))

CallGetExerciseInsight ==
    \E i \in 1..Len(ExerciseNames) :
        RequesterCalled("insight", InsightKey(ExerciseNames[i]),
                        getExerciseInsight(ExerciseNames[i], store))

\* generateContent answers the outstanding call of r with text; what the
\* requester then returns (when it returns) is recorded
RequesterAnswered ==
    /\ \E r \in requests, text \in AITexts, writeFails \in BOOLEAN :
          /\ r.cw.pc = "calling"
          /\ LET fn == FnAfterResponse(r, text, store, writeFails)
                 cw2 == IF fn.rejected
                        THEN CwFnRejected(r.cw, ErrorOf(fn.shape, r.cw.calls))
                        ELSE CwFnResolved(r.cw, fn.value)
             IN /\ store' = fn.store
                /\ Settle(r, cw2)
                /\ cacheOp' = [op |-> "answered", key |-> r.key, threw |-> FALSE,
                               value |-> RequesterReturn(cw2),
                               failed |-> writeFails, before |-> None,
                               stored |-> store, text |-> Some(text)]
    /\ UNCHANGED <<activeView, viewLogs, profile, nextReq, switches, keyVars,
                   retryVars, logVars, restVars>>

(***************************************************************************)
(* WorkoutLogger (components/WorkoutLogger.tsx): the debounced calorie     *)
(* estimate. Times are in half minutes, MET values in tenths.              *)
(***************************************************************************)
REST_MET == 25                  \* 2.5
STRENGTH_MET == 45              \* 4.5
STRENGTH_SET_DURATION == 3      \* 1.5 minutes
DEFAULT_MET == 40               \* 4.0

\* CARDIO_CATEGORIES: id -> baseMET
CardioBaseMET ==
    [running |-> 80, incline |-> 60, stairmaster |-> 90, rowing |-> 70,
     elliptical |-> 55, other |-> 50]

Max(a, b) == IF a >= b THEN a ELSE b

\* Math.round of num / den (den > 0)
Round(num, den) == (2 * num + den) \div (2 * den)

\* the MET of a cardio exercise, adjusted by its intensity parameter
\* (speed, incline and level are 0 when not entered)
CardioMET(ex) ==
    CardioBaseMET[ex.cardioCategory]
        + (IF ex.cardioCategory = "running" /\ ex.speed # 0
           THEN (ex.speed - 8) * 5 ELSE 0)
        + (IF ex.cardioCategory = "incline" /\ ex.incline # 0
           THEN ex.incline * 4 ELSE 0)
        + (IF ex.cardioCategory = "stairmaster" /\ ex.level # 0
           THEN ex.level * 3 ELSE 0)

\* the active time of one exercise
ActiveTime(ex) ==
    IF ex.type = "cardio" THEN 2 * ex.duration
    ELSE ex.sets * STRENGTH_SET_DURATION

\* MET * time of one exercise (calories are this * userWeight / 1200)
ActiveMETTime(ex) ==
    IF ex.type = "cardio" THEN CardioMET(ex) * ActiveTime(ex)
    ELSE STRENGTH_MET * ActiveTime(ex)

RECURSIVE totalActiveTime(_)
totalActiveTime(exercises) ==
    IF exercises = <<>> THEN 0
    ELSE ActiveTime(Head(exercises)) + totalActiveTime(Tail(exercises))

RECURSIVE totalActiveMETTime(_)
totalActiveMETTime(exercises) ==
    IF exercises = <<>> THEN 0
    ELSE ActiveMETTime(Head(exercises)) + totalActiveMETTime(Tail(exercises))

\* (a rest time that is not clamped at zero)
restTime_Unclamped(totalDurationMin, exercises) ==
    2 * totalDurationMin - totalActiveTime(exercises)

\* Math.max(0, totalDurationMin - totalActiveTime)
restTime(totalDurationMin, exercises) ==
    Max(0, 2 * totalDurationMin - totalActiveTime(exercises))

\* the value the timer callback passes to setCalories
estimate(totalDurationMin, exercises, userWeight) ==
    IF Len(exercises) = 0
    THEN Round(DEFAULT_MET * userWeight * 2 * totalDurationMin, 1200)
    ELSE Round(totalActiveMETTime(exercises) * userWeight
                 + REST_MET * userWeight * restTime(totalDurationMin, exercises),
               1200)

\* parseInt(duration): the whole minutes of the duration field
parseIntDuration(w) == w.duration \div 2

\* the effect on [duration, userWeight, exercises]: the cleanup of the
\* previous run, then the new run up to its setTimeout
estimateEffect(w) ==
    LET cleaned == [w EXCEPT !.timer = None]
    IN IF parseIntDuration(w) > 0 /\ ~w.isManual
       THEN [cleaned EXCEPT !.isCalculating = TRUE,
                            !.timer = Some([totalDurationMin |-> parseIntDuration(w),
                                            exercises |-> w.exercises])]
       ELSE cleaned

\* the timer callback: setCalories(...); setIsCalculating(false)
estimateTimer(w) ==
    LET value == estimate(w.timer[1].totalDurationMin, w.timer[1].exercises,
                          w.userWeight)
    IN [w EXCEPT !.calories = Some(value),
                 !.isCalculating = FALSE,
                 !.timer = None,
                 !.estimates = <<[totalDurationMin |-> w.timer[1].totalDurationMin,
                                  exercises |-> w.timer[1].exercises,
                                  calories |-> value]>>
                               \o (IF @ = <<>> THEN <<>> ELSE <<@[1]>>)]

MaxDuration == 3      \* the longest duration typed into the form, in minutes
MaxExercises == 2     \* exercises added in one form session

UserWeights == {75, 50}

\* the exercises the form adds: two strength sets; a 2-minute run at 10 km/h
ExerciseInputs ==
    { [type |-> "strength", sets |-> 2, cardioCategory |-> "other", duration |-> 0,
       speed |-> 0, incline |-> 0, level |-> 0],
      [type |-> "cardio", sets |-> 1, cardioCategory |-> "running", duration |-> 2,
       speed |-> 10, incline |-> 0, level |-> 0] }

\* what is typed into the calories field: '', '120', or a text the numeric
\* filter rejects
CalorieInputs == {"", "120", "1a"}

LoggerOpened(userWeight) ==
    [duration |-> 0, calories |-> None, exercises |-> <<>>, isManual |-> FALSE,
     isCalculating |-> FALSE, timer |-> None, userWeight |-> userWeight,
     estimates |-> <<>>]

LoggerQuiet == wl = LoggerOpened(75)

LoggerInit == \E userWeight \in UserWeights : wl = LoggerOpened(userWeight)

\* the duration field changes: handleNumericInput(value, setDuration)
DurationInput ==
    /\ \E d \in 0..MaxDuration :
          /\ 2 * d # wl.duration
          /\ wl' = estimateEffect([wl EXCEPT !.duration = 2 * d])
    /\ UNCHANGED <<keyVars, retryVars, logVars, cacheVars, appVars, dash, session, form, fg_logs>>

\* addExercise: the total duration grows by the exercise's time
AddExercise ==
    /\ Len(wl.exercises) < MaxExercises
    /\ \E ex \in ExerciseInputs :
          wl' = estimateEffect(
                  [wl EXCEPT !.duration = 2 * parseIntDuration(wl) + ActiveTime(ex),
                             !.exercises = Append(@, ex)])
    /\ UNCHANGED <<keyVars, retryVars, logVars, cacheVars, appVars, dash, session, form, fg_logs>>

\* the calories field changes: isManualCalorieRef.current = true;
\* handleNumericInput(value, setCalories)
CaloriesInput ==
    /\ \E text \in CalorieInputs :
          wl' = [wl EXCEPT !.isManual = TRUE,
                           !.calories = IF text = "" THEN None
                                        ELSE IF text = "120" THEN Some(120)
                                        ELSE @]
    /\ UNCHANGED <<keyVars, retryVars, logVars, cacheVars, appVars, dash, session, form, fg_logs>>

\* the 400 ms timer fires
EstimateTimerFires ==
    /\ wl.timer # None
    /\ wl' = estimateTimer(wl)
    /\ UNCHANGED <<keyVars, retryVars, logVars, cacheVars, appVars, dash, session, form, fg_logs>>

(***************************************************************************)
(* Dashboard (components/Dashboard.tsx): the weight trend. Weights are in  *)
(* tenths of a kilogram; a sample's date is the time its date string       *)
(* parses to.                                                              *)
(***************************************************************************)
\* Array.prototype.sort with (a, b) => time(a.date) - time(b.date): stable,
\* ascending by date
RECURSIVE sortByDate(_)
sortByDate(history) ==
    IF history = <<>> THEN <<>>
    ELSE LET n == Len(history)
             x == history[n]
             front == sortByDate(SubSeq(history, 1, n - 1))
             k == Cardinality({i \in 1..Len(front) : front[i].date - x.date <= 0})
         IN SubSeq(front, 1, k) \o <<x>> \o SubSeq(front, k + 1, Len(front))

\* (the history as stored)
sortedWeightHistory_AsStored(pf) ==
    IF pf.weightHistory = None THEN <<>> ELSE pf.weightHistory[1]

\* [...(profile.weightHistory || [])].sort(...)
sortedWeightHistory(pf) ==
    sortByDate(IF pf.weightHistory = None THEN <<>> ELSE pf.weightHistory[1])

\* baselineWeight, currentWeight, rawChange and changeColor of one render
weightTrend(pf) ==
    LET sorted == sortedWeightHistory(pf)
        baselineWeight == IF Len(sorted) > 0 THEN sorted[1].weight ELSE pf.weight
        currentWeight == pf.weight
        rawChange == currentWeight - baselineWeight
    IN [baselineWeight |-> baselineWeight,
        currentWeight |-> currentWeight,
        rawChange |-> rawChange,
        changeColor |-> IF rawChange <= 0 THEN "text-emerald-500"
                        ELSE "text-rose-500"]

MaxHistory == 3        \* samples in a weight history
MaxSampleDate == 2     \* sample dates are 0..MaxSampleDate

SampleWeights == {700, 800}
CurrentWeights == {700, 750, 800}

Samples == [date : 0..MaxSampleDate, weight : SampleWeights]

RECURSIVE Histories(_)
Histories(n) ==
    IF n = 0 THEN {<<>>}
    ELSE LET shorter == Histories(n - 1)
         IN shorter \cup {Append(h, s) : h \in {g \in shorter : Len(g) = n - 1},
                                          s \in Samples}

\* the profiles the Dashboard is given: weightHistory absent or a sequence
DashProfiles ==
    [weight : CurrentWeights,
     weightHistory : {None} \cup {Some(h) : h \in Histories(MaxHistory)}]

DashQuiet == dash = [profile |-> [weight |-> 750, weightHistory |-> None],
                     view |-> None]

DashInit == \E pf \in DashProfiles : dash = [profile |-> pf, view |-> None]

\* the Dashboard renders its profile
DashboardRenders ==
    /\ dash.view = None
    /\ dash' = [dash EXCEPT !.view = Some(weightTrend(dash.profile))]
    /\ UNCHANGED <<keyVars, retryVars, logVars, cacheVars, appVars, wl, session, form, fg_logs>>

(***************************************************************************)
(* The persistence backend client (services/backend.ts) and App's          *)
(* authentication state                                                    *)
(***************************************************************************)
\* the statuses the backend answers with
ResponseStatuses == {200, 401, 403, 500}

\* response.ok
ok(status) == status \in 200..299

\* (a handleResponse that only throws on 401 / 403)
handleResponse_OnlyThrows(s, status) ==
    [session |-> s, threw |-> ~ok(status)]

\* handleResponse: on 401 / 403 localStorage.removeItem('fg_token');
\* window.location.reload(); throw. On another failure throw.
handleResponse(s, status) ==
    IF status = 401 \/ status = 403
    THEN [session |-> [s EXCEPT !.token = FALSE, !.reloading = TRUE], threw |-> TRUE]
    ELSE [session |-> s, threw |-> ~ok(status)]

MaxCalls == 5     \* backend calls issued by one page load

\* the accounts; user 1 owns the token found at the first page load
Users == {1, 2}

BackendCall(id, op) == [id |-> id, op |-> op]

\* loadAppData up to its await: without a token the Auth screen, with one
\* setIsAuthenticated(true) and the two reads of Promise.all
loadAppData(s) ==
    IF ~s.token
    THEN [s EXCEPT !.isAuthenticated = FALSE, !.isAppLoading = FALSE]
    ELSE [s EXCEPT !.isAuthenticated = TRUE,
                   !.isAppLoading = TRUE,
                   !.calls = @ \cup {BackendCall(s.nextCall, "getWorkoutLogs"),
                                     BackendCall(s.nextCall + 1, "getUserProfile")},
                   !.nextCall = @ + 2,
                   !.load = [logs |-> None, profile |-> None]]

\* the page after (re)loading: App mounts and its effect calls loadAppData
\* (last and handled record the responses handled, user the account of the
\* token, loginAs the account of the login in flight, profileOf the account
\* whose stored profile the profile state was loaded from, 0 for none)
PageLoaded(token) ==
    loadAppData([token |-> token, isAuthenticated |-> FALSE, isAppLoading |-> TRUE,
                 reloading |-> FALSE, calls |-> {}, nextCall |-> 1,
                 load |-> [logs |-> None, profile |-> None],
                 last |-> None, handled |-> 0,
                 user |-> IF token THEN 1 ELSE 0, loginAs |-> 0, profileOf |-> 0])

\* a signed-in App with nothing in flight
SessionQuiet ==
    session = [token |-> TRUE, isAuthenticated |-> TRUE, isAppLoading |-> FALSE,
               reloading |-> FALSE, calls |-> {}, nextCall |-> 1,
               load |-> [logs |-> None, profile |-> None],
               last |-> None, handled |-> 0, user |-> 1, loginAs |-> 0, profileOf |-> 0]

SessionInit == \E token \in BOOLEAN : session = PageLoaded(token)

\* what GET /logs and GET /profile answer
FetchedLogs == {<<>>, <<NewLog(1, 0, CHOOSE body \in LogBodies : body.title = "t1")>>}
FetchedProfiles == Profiles
\* GET /profile of an account: its stored profile, or null when it has none
StoredProfiles == {None} \cup {Some(pf) : pf \in FetchedProfiles}

RECURSIVE datesOf(_)
datesOf(lg) == IF lg = <<>> THEN <<>> ELSE <<Head(lg).date>> \o datesOf(Tail(lg))

\* Auth.handleSubmit up to its await: backend.login / backend.register
AuthSubmit ==
    /\ ~session.isAppLoading /\ ~session.isAuthenticated
    /\ \A c \in session.calls : c.op # "login"
    /\ session.nextCall + 2 <= MaxCalls
    /\ \E u \in Users :
          session' = [session EXCEPT
                        !.calls = @ \cup {BackendCall(session.nextCall, "login")},
                        !.nextCall = @ + 1,
                        !.loginAs = u]
    /\ UNCHANGED <<keyVars, retryVars, logVars, cacheVars, appVars, wl, dash, form, fg_logs>>

\* handleProfileUpdate up to its await: setSyncStatus('syncing');
\* backend.saveUserProfile(profile)
ProfileSubmit ==
    /\ ~session.isAppLoading /\ session.isAuthenticated
    /\ session.nextCall <= MaxCalls
    /\ session' = [session EXCEPT
                     !.calls = @ \cup {BackendCall(session.nextCall, "saveUserProfile")},
                     !.nextCall = @ + 1]
    /\ syncStatus' = "syncing"
    /\ UNCHANGED <<logs, addPending, idleTimers, nextId, keyVars, retryVars, cacheVars,
                   appVars, wl, dash, form, fg_logs>>

\* handleLogout: backend.logout(); setIsAuthenticated(false); setLogs([]);
\* setActiveView('dashboard')
Logout ==
    /\ ~session.isAppLoading /\ session.isAuthenticated
    /\ session' = [session EXCEPT !.token = FALSE, !.isAuthenticated = FALSE,
                                  !.user = 0]
    /\ logs' = <<>>
    /\ viewLogs' = <<>>
    /\ activeView' = "dashboard"
    /\ UNCHANGED <<addPending, syncStatus, idleTimers, nextId, keyVars, retryVars,
                   cacheVars, profile, ar, ed, coach, requests, nextReq, switches,
                   wl, dash, form, fg_logs>>

\* the session after the response to call: handleResponse and the record of it
Responded(call, status) ==
    LET r == handleResponse([session EXCEPT !.calls = @ \ {call}], status)
    IN [session |-> [r.session EXCEPT !.last = Some([op |-> call.op, status |-> status]),
                                      !.handled = @ + 1],
        threw |-> r.threw]

\* the response to backend.login: the token is stored and Auth calls
\* onSuccess = loadAppData; a failure sets Auth's error
LoginResponds ==
    /\ \E call \in session.calls, status \in ResponseStatuses :
          /\ call.op = "login"
          /\ LET r == Responded(call, status)
             IN session' = IF r.threw THEN r.session
                           ELSE loadAppData([r.session EXCEPT
                                               !.token = TRUE,
                                               !.isAppLoading = TRUE,
                                               !.user = r.session.loginAs])
    /\ UNCHANGED <<keyVars, retryVars, logVars, cacheVars, appVars, wl, dash, form, fg_logs>>

\* the response to backend.saveUserProfile
SaveProfileResponds ==
    /\ \E call \in session.calls, status \in ResponseStatuses :
          /\ call.op = "saveUserProfile"
          /\ LET r == Responded(call, status)
             IN /\ session' = r.session
                /\ syncStatus' = IF r.threw THEN "error" ELSE "synced"
                /\ idleTimers' = IF r.threw THEN idleTimers ELSE idleTimers + 1
    /\ UNCHANGED <<logs, addPending, nextId, keyVars, retryVars, cacheVars, appVars,
                   wl, dash, form, fg_logs>>

\* the response to one of loadAppData's reads: a failure becomes [] or null;
\* with both reads settled loadAppData sets logs, profile and isAppLoading
ReadResponds ==
    \E call \in session.calls, status \in ResponseStatuses,
       fetchedLogs \in FetchedLogs, fetchedProfile \in StoredProfiles :
       /\ call.op \in {"getWorkoutLogs", "getUserProfile"}
       /\ LET r == Responded(call, status)
              load == IF call.op = "getWorkoutLogs"
                      THEN [r.session.load EXCEPT
                              !.logs = Some(IF r.threw THEN <<>> ELSE fetchedLogs)]
                      ELSE [r.session.load EXCEPT
                              !.profile = Some(IF r.threw THEN None
                                               ELSE fetchedProfile)]
          IN IF load.logs # None /\ load.profile # None
             THEN /\ session' = [r.session EXCEPT
                                   !.load = [logs |-> None, profile |-> None],
                                   !.isAppLoading = FALSE,
                                   !.profileOf = IF load.profile[1] = None THEN @
                                                 ELSE r.session.user]
                  /\ logs' = load.logs[1]
                  /\ viewLogs' = datesOf(load.logs[1])
                  /\ profile' = IF load.profile[1] = None THEN profile
                                ELSE load.profile[1][1]
             ELSE /\ session' = [r.session EXCEPT !.load = load]
                  /\ UNCHANGED <<logs, viewLogs, profile>>
       /\ UNCHANGED <<addPending, syncStatus, idleTimers, nextId, keyVars, retryVars,
                      cacheVars, activeView, ar, ed, coach, requests, nextReq, switches,
                      wl, dash, form, fg_logs>>

\* the reload asked for by handleResponse happens: the page's state and its
\* calls in flight are gone, localStorage stays, App mounts again
PageReloads ==
    /\ session.reloading
    /\ session' = [PageLoaded(session.token) EXCEPT
                     !.last = session.last,
                     !.user = IF session.token THEN session.user ELSE 0]
    /\ logs' = <<>>
    /\ addPending' = {}
    /\ syncStatus' = "idle"
    /\ idleTimers' = 0
    /\ activeView' = "dashboard"
    /\ viewLogs' = <<>>
    /\ profile' = InitialProfile
    /\ ar' = ArUnmounted(0)
    /\ ed' = EdUnmounted(0)
    /\ coach' = CoachUnmounted(0)
    /\ requests' = {}
    /\ nextReq' = 1
    /\ UNCHANGED <<switches, nextId, keyVars, retryVars, cacheVars, wl, dash, form, fg_logs>>

(***************************************************************************)
(* WorkoutLogger.handleSubmit and App.handleAddLog: the logger as App      *)
(* opens and closes it                                                     *)
(***************************************************************************)
\* the logger is not rendered (isLoggerOpen = false); submits are the
\* handleSubmit calls awaiting onAddLog: the id of their log, and whether
\* they belong to the instance that is mounted now
FormClosed(submits) ==
    [open |-> FALSE, isSubmitting |-> FALSE, entry |-> None,
     submits |-> {[s EXCEPT !.mounted = FALSE] : s \in submits},
     lastSave |-> None]

FormQuiet == form = FormClosed({})

\* the + button: setIsLoggerOpen(true), a new WorkoutLogger mounts
OpenLogger ==
    /\ ~form.open
    /\ form' = [FormClosed(form.submits) EXCEPT !.open = TRUE,
                                                !.lastSave = form.lastSave]
    /\ UNCHANGED <<keyVars, retryVars, logVars, cacheVars, appVars, wl, dash, session,
                   fg_logs>>

\* the close button of the logger: onClose, the WorkoutLogger unmounts
CloseLogger ==
    /\ form.open
    /\ form' = [FormClosed(form.submits) EXCEPT !.lastSave = form.lastSave]
    /\ UNCHANGED <<keyVars, retryVars, logVars, cacheVars, appVars, wl, dash, session,
                   fg_logs>>

\* a submit event of the form, filled with a date and a body: handleSubmit up
\* to its await, which is handleAddLog up to its await
SubmitLog ==
    /\ form.open
    /\ nextId <= MaxAdds
    /\ \E date \in 0..MaxDate, body \in LogBodies :
          IF form.isSubmitting
          THEN UNCHANGED <<form, addPending, nextId, syncStatus>>
          ELSE /\ form' = [form EXCEPT
                             !.isSubmitting = TRUE,
                             !.entry = Some(NewLog(nextId, date, body)),
                             !.submits = @ \cup {[id |-> nextId, mounted |-> TRUE]}]
               /\ addPending' = addPending \cup {NewLog(nextId, date, body)}
               /\ nextId' = nextId + 1
               /\ syncStatus' = "syncing"
    /\ UNCHANGED <<logs, idleTimers, keyVars, retryVars, cacheVars, appVars, wl, dash,
                   session, fg_logs>>

\* handleSubmit after await onAddLog(newLog) returned: onClose(), then
\* finally setIsSubmitting(false)
AfterOnAddLog(f, newLog, saved) ==
    [FormClosed(f.submits \ {s \in f.submits : s.id = newLog.id}) EXCEPT
        !.lastSave = Some([id |-> newLog.id, saved |-> saved,
                           wasOpen |-> f.open,
                           ownForm |-> \E s \in f.submits : s.id = newLog.id /\ s.mounted,
                           entry |-> f.entry])]

\* backend.addWorkoutLog resolves: handleAddLog merges and returns, then
\* handleSubmit goes on
SubmitSaved ==
    /\ \E newLog \in addPending :
          /\ \E s \in form.submits : s.id = newLog.id
          /\ addPending' = addPending \ {newLog}
          /\ logs' = addLogUpdater(logs, newLog)
          /\ form' = AfterOnAddLog(form, newLog, TRUE)
    /\ syncStatus' = "synced"
    /\ idleTimers' = idleTimers + 1
    /\ UNCHANGED <<nextId, keyVars, retryVars, cacheVars, appVars, wl, dash, session,
                   fg_logs>>

\* backend.addWorkoutLog rejects: handleAddLog catches the error, sets
\* 'error' and returns normally, then handleSubmit goes on
SubmitFailed ==
    /\ \E newLog \in addPending :
          /\ \E s \in form.submits : s.id = newLog.id
          /\ addPending' = addPending \ {newLog}
          /\ form' = AfterOnAddLog(form, newLog, FALSE)
    /\ syncStatus' = "error"
    /\ UNCHANGED <<logs, idleTimers, nextId, keyVars, retryVars, cacheVars, appVars,
                   wl, dash, session, fg_logs>>

(***************************************************************************)
(* The mock backend's log list and App.simulateData                        *)
(***************************************************************************)
\* MockBackend.addWorkoutLog between its getItem and its setItem: the new
\* contents of 'fg_logs'
MockBackend_addWorkoutLog(currentLogs, log) ==
    LET newLogDate == toDateString(log.date)
        hits == {i \in 1..Len(currentLogs) :
                    toDateString(currentLogs[i].date) = newLogDate}
        existingIndex == IF hits = {} THEN 0
                         ELSE CHOOSE i \in hits : \A j \in hits : i <= j
    IN IF existingIndex >= 1
       THEN [currentLogs EXCEPT ![existingIndex] =
                [@ EXCEPT
                   !.duration = @ + log.duration,
                   !.calories = @ + log.calories,
                   !.exercises = @ \o log.exercises,
                   !.notes = @ \o (IF log.notes # <<>>
                                   THEN NotesSeparator \o log.notes ELSE <<>>)]]
       ELSE <<log>> \o currentLogs

MockInit == fg_logs = <<>>

\* handleAddLog after the mock backend stored newLog: addWorkoutLog writes
\* 'fg_logs' and resolves, and the code after the await runs
MockAddLogSaved ==
    /\ \E newLog \in addPending :
          /\ addPending' = addPending \ {newLog}
          /\ fg_logs' = MockBackend_addWorkoutLog(fg_logs, newLog)
          /\ logs' = addLogUpdater(logs, newLog)
    /\ syncStatus' = "synced"
    /\ idleTimers' = idleTimers + 1
    /\ UNCHANGED <<nextId, keyVars, retryVars, cacheVars, appVars, wl, dash, session,
                   form>>

SimDays == 2          \* the days simulateData fills (the code: 7)
MaxSims == 1          \* simulateData runs

\* the log simulateData builds for the day i days before now; its duration
\* and calories are 45 and 300 plus random draws
SimLog(now, i, randDuration, randCalories) ==
    [id |-> 100 + i, date |-> now - i * SlotsPerDay,
     title |-> IF i % 2 = 0 THEN "t1" ELSE "t2", duration |-> 45 + randDuration,
     calories |-> 300 + randCalories, notes |-> <<"s">>, exercises |-> <<"S", "S", "S">>]

\* newLogs after the loop for (let i = 6; i >= 0; i--), reversed in place:
\* the log of today first
reversedLogs(now, randDuration, randCalories) ==
    [k \in 1..SimDays |-> SimLog(now, k - 1, randDuration[k], randCalories[k])]

\* for (const log of reversedLogs) await backend.addWorkoutLog(log)
RECURSIVE addAll(_, _)
addAll(currentLogs, newLogs) ==
    IF newLogs = <<>> THEN currentLogs
    ELSE addAll(MockBackend_addWorkoutLog(currentLogs, Head(newLogs)), Tail(newLogs))

\* simulateData, run to its end with no other event in between (it runs
\* while the list holds fewer than MaxSims * SimDays simulated logs)
SimulateData ==
    /\ Len(SelectSeq(logs, LAMBDA l : l.id >= 100)) < MaxSims * SimDays
    /\ addPending = {}
    /\ \E now \in 0..MaxDate, randDuration \in [1..SimDays -> {0, 14}],
          randCalories \in [1..SimDays -> {0, 199}] :
          LET newLogs == reversedLogs(now, randDuration, randCalories)
          IN /\ fg_logs' = addAll(fg_logs, newLogs)
             /\ logs' = newLogs
    /\ activeView' = "dashboard"
    /\ session' = [session EXCEPT !.isAppLoading = FALSE]
    /\ UNCHANGED <<addPending, syncStatus, idleTimers, nextId, keyVars, retryVars,
                   cacheVars, viewLogs, profile, ar, ed, coach, requests, nextReq,
                   switches, wl, dash, form>>

RestInit == LoggerQuiet /\ DashQuiet /\ SessionQuiet /\ FormQuiet /\ MockInit

(***************************************************************************)
(* Specifications                                                          *)
(***************************************************************************)
InitKey == AppInit /\ KeyInit /\ RetryInit /\ LogInit /\ RestInit /\ CacheQuiet
NextKey == ComputeKeyA \/ ComputeKeyB
SpecKey == InitKey /\ [][NextKey]_vars

InitRetry == AppInit /\ KeyQuiet /\ RetryInit /\ LogInit /\ RestInit /\ CacheQuiet
NextRetry == RetryStart \/ RetryFnResolves \/ RetryFnRejects \/ RetryTimerFires
SpecRetry == InitRetry /\ [][NextRetry]_vars

InitLogs == AppInit /\ KeyQuiet /\ RetryInit /\ LogInit /\ RestInit /\ CacheQuiet
NextLogs == HandleAddLog \/ AddLogSaved \/ AddLogFailed \/ SyncTimerFires
SpecLogs == InitLogs /\ [][NextLogs]_vars

\* the logger opened, submitted and closed by the user
NextSubmit ==
    \/ OpenLogger \/ CloseLogger \/ SubmitLog \/ SubmitSaved \/ SubmitFailed
    \/ SyncTimerFires
SpecSubmit == InitLogs /\ [][NextSubmit]_vars

\* log additions against the mock backend, and simulateData
NextMirror == HandleAddLog \/ MockAddLogSaved \/ SimulateData \/ SyncTimerFires
SpecMirror == InitLogs /\ [][NextMirror]_vars

InitCache == AppInit /\ KeyQuiet /\ RetryInit /\ LogInit /\ RestInit /\ CacheInit
NextCache == CacheGet \/ CacheSet \/ RequesterFetches
SpecCache == InitCache /\ [][NextCache]_vars

\* the report view alone: AnalysisReport, its requester and the cache
InitReport == KeyQuiet /\ RetryInit /\ LogInit /\ RestInit /\ CacheQuiet /\ AppInit
NextReport ==
    \/ ShowReport \/ ShowDashboard
    \/ LogsChange \/ ProfileChange
    \/ RemoteResolves \/ RemoteRejects \/ BackoffTimerFires
SpecReport == InitReport /\ [][NextReport]_vars

\* the report view when every remote call succeeds: a call in flight is
\* eventually answered (weak fairness of RemoteSucceeds); the inputs may
\* change at any time or never again
NextReportLive ==
    \/ ShowReport \/ ShowDashboard
    \/ LogsChange \/ ProfileChange
    \/ RemoteSucceeds
SpecReportLive == InitReport /\ [][NextReportLive]_vars /\ WF_vars(RemoteSucceeds)

\* the requesters alone, called with no log or one log and with any goal
InitRequesters ==
    /\ KeyQuiet /\ RetryInit /\ LogInit /\ RestInit /\ CacheQuiet
    /\ \E lg \in {<<>>, <<0>>}, pf \in Profiles :
          /\ viewLogs = lg
          /\ profile = pf
    /\ activeView = "dashboard"
    /\ ar = ArUnmounted(0)
    /\ ed = EdUnmounted(0)
    /\ coach = CoachUnmounted(0)
    /\ requests = {}
    /\ nextReq = 1
    /\ switches = 0
NextRequesters ==
    \/ CallGenerateFitnessPlan \/ CallAnalyzeWorkoutHistory
    \/ CallGenerateTrainingReport \/ CallGetExerciseInsight
    \/ RequesterAnswered \/ RemoteRejects \/ BackoffTimerFires
SpecRequesters == InitRequesters /\ [][NextRequesters]_vars

\* one session of the WorkoutLogger form
InitLogger ==
    /\ AppInit /\ KeyQuiet /\ RetryInit /\ LogInit /\ CacheQuiet
    /\ LoggerInit /\ DashQuiet /\ SessionQuiet /\ FormQuiet /\ MockInit
NextLogger == DurationInput \/ AddExercise \/ CaloriesInput \/ EstimateTimerFires
SpecLogger == InitLogger /\ [][NextLogger]_vars

\* the Dashboard rendering one profile
InitDashboard ==
    /\ AppInit /\ KeyQuiet /\ RetryInit /\ LogInit /\ CacheQuiet
    /\ LoggerQuiet /\ DashInit /\ SessionQuiet /\ FormQuiet /\ MockInit
NextDashboard == DashboardRenders
SpecDashboard == InitDashboard /\ [][NextDashboard]_vars

\* App's authentication against the persistence backend
InitAuth ==
    /\ AppInit /\ KeyQuiet /\ RetryInit /\ LogInit /\ CacheQuiet
    /\ LoggerQuiet /\ DashQuiet /\ SessionInit /\ FormQuiet /\ MockInit
NextAuth ==
    \/ AuthSubmit \/ ProfileSubmit \/ Logout \/ LoginResponds \/ SaveProfileResponds
    \/ ReadResponds \/ PageReloads \/ SyncTimerFires
SpecAuth == InitAuth /\ [][NextAuth]_vars

Init == KeyQuiet /\ RetryInit /\ LogInit /\ RestInit /\ CacheQuiet /\ AppInit
Next ==
    \/ ShowReport \/ ShowExercises \/ ShowCoach \/ ShowDashboard
    \/ LogsChange \/ ProfileChange \/ SelectExercise
    \/ GeneratePlan \/ Analyze
    \/ RemoteResolves \/ RemoteRejects \/ BackoffTimerFires
Spec == Init /\ [][Next]_vars


(***************************************************************************)
(* Properties of stableKey (SpecKey)                                       *)
(***************************************************************************)
\* C10: payloads equal by deep value, whatever the order in which their
\* fields were set, get the same key, and a repeated call with the same
\* payload returns the identical string.
C10_DeepEqualSameKey ==
    (keyA # <<>> /\ keyB # <<>> /\ DeepEqual(payloadA, payloadB))
        => keyA = keyB

\* Same fields set in the same order: the keys agree
KeySameOrderSameKey ==
    (keyA # <<>> /\ keyB # <<>> /\ payloadA = payloadB) => keyA = keyB

(***************************************************************************)
(* Properties of callWithRetry (SpecRetry)                                 *)
(***************************************************************************)
CwSettled == cw.pc \in {"returned", "thrown"}
CwAllFailed429 ==
    /\ Len(cw.errs) = cw.calls
    /\ \A k \in 1..Len(cw.errs) : is429(cw.errs[k])

\* C3: with n >= 1, fn is invoked at most n times; when every invocation
\* fails with a 429-classified error, fn is invoked exactly n times and
\* callWithRetry rejects with the rate-limit error of the last attempt.
C3_RetryBudget ==
    cw.maxRetries >= 1 =>
        /\ cw.calls <= cw.maxRetries
        /\ (CwSettled /\ CwAllFailed429) =>
               /\ cw.pc = "thrown"
               /\ cw.calls = cw.maxRetries
               /\ cw.thrown = Some(cw.errs[cw.maxRetries])
               /\ is429(cw.errs[cw.maxRetries])
               /\ cw.errs[cw.maxRetries].id = cw.maxRetries

C3_Witness ==
    /\ cw.pc = "thrown"
    /\ cw.maxRetries = 2
    /\ cw.calls = 2
    /\ CwAllFailed429
    /\ cw.errs[1] # cw.errs[2]

\* C4: a failure that is not classified as rate-limit makes callWithRetry
\* reject at once with that same error: no sleep follows it and fn is not
\* invoked again; a non-429 failure of the first attempt means one invocation.
C4_NoRetryOnOtherError ==
    \A k \in 1..Len(cw.errs) :
        ~is429(cw.errs[k]) =>
            /\ k = Len(cw.errs)
            /\ cw.calls = k
            /\ cw.sleeps = k - 1
            /\ cw.pc = "thrown"
            /\ cw.thrown = Some(cw.errs[k])

C4_Witness ==
    /\ cw.pc = "thrown"
    /\ cw.maxRetries = 2
    /\ cw.calls = 1
    /\ Len(cw.errs) = 1
    /\ ~is429(cw.errs[1])
    /\ cw.errs[1].status = Some(500)

(***************************************************************************)
(* Properties of the same-day merge (SpecLogs)                             *)
(***************************************************************************)
SameDay(l1, l2) == toDateString(l1.date) = toDateString(l2.date)

\* the handleAddLog call for newLog completed successfully in this step
Saved(newLog) ==
    /\ newLog \in addPending
    /\ addPending' = addPending \ {newLog}
    /\ syncStatus' = "synced"

MergedInto(old, new, inc) ==
    /\ new.duration = old.duration + inc.duration
    /\ new.calories = old.calories + inc.calories
    /\ new.exercises = old.exercises \o inc.exercises
    /\ new.notes = IF inc.notes = <<>> THEN old.notes
                   ELSE old.notes \o <<" ", "|", " ">> \o inc.notes
    /\ new.id = old.id
    /\ new.title = old.title
    /\ new.date = old.date

\* C5: adding a log whose local calendar day equals that of an existing log
\* replaces that entry in place by the merge (duration and calories summed,
\* exercises concatenated existing first, notes joined by ' | ' only when the
\* incoming notes are non-empty, id, title and date kept); the length of the
\* list and every other entry are unchanged.
C5_SameDayMerge ==
    [][\A newLog \in addPending :
         (Saved(newLog) /\ \E i \in 1..Len(logs) : SameDay(logs[i], newLog)) =>
            /\ Len(logs') = Len(logs)
            /\ \E i \in 1..Len(logs) :
                  /\ SameDay(logs[i], newLog)
                  /\ MergedInto(logs[i], logs'[i], newLog)
                  /\ \A j \in 1..Len(logs) : j # i => logs'[j] = logs[j]]_vars

\* a day merged from three additions: notes joined once by ' | ', and the
\* addition without notes leaving them as they were
C5_Witness ==
    /\ \E i \in 1..Len(logs) :
          /\ logs[i].duration = 80
          /\ logs[i].calories = 400
          /\ logs[i].exercises = <<"A", "B", "A">>
          /\ logs[i].notes = <<"x", " ", "|", " ", "x">>
          /\ logs[i].title = "t1"
          /\ logs[i].id = 1
    /\ Len(logs) = 1

\* C6: the local list holds at most one log per local calendar day after
\* any sequence of successful handleAddLog operations.
C6_OneLogPerDay ==
    \A i, j \in 1..Len(logs) : i # j => ~SameDay(logs[i], logs[j])

\* two days are logged, one of them merged from two additions
C6_Witness ==
    /\ Len(logs) = 2
    /\ nextId = 4
    /\ addPending = {}
    /\ \E i \in 1..2 : Len(logs[i].exercises) = 2

\* C7: adding a log on a day no existing log shares puts it at index 0 in
\* front of the previous list, which is unchanged and keeps its order.
C7_NewDayPrepends ==
    [][\A newLog \in addPending :
         (Saved(newLog) /\ \A i \in 1..Len(logs) : ~SameDay(logs[i], newLog)) =>
            /\ Len(logs') = Len(logs) + 1
            /\ logs'[1] = newLog
            /\ \A i \in 1..Len(logs) : logs'[i + 1] = logs[i]]_vars

\* three logs on three different days, the latest addition first
C7_Witness ==
    /\ Len(logs) = 3
    /\ logs[1].id = 3
    /\ logs[2].id = 1
    /\ logs[3].id = 2

(***************************************************************************)
(* Properties of Cache.get (SpecCache)                                     *)
(***************************************************************************)
\* the stored string is one that JSON.parse accepts
Parsable(text) == text = TextNull \/ \E row \in KnownTexts : row[2] = text

\* C8: Cache.get never throws; it returns null when the stored string of the
\* key cannot be parsed, when reading the storage fails and when there is no
\* entry for the key.
C8_GetNeverThrows ==
    cacheOp.op = "get" =>
        /\ ~cacheOp.threw
        /\ (cacheOp.failed
             \/ cacheOp.before = None
             \/ ~Parsable(cacheOp.before[1])) => cacheOp.value = None

\* a get that found a truncated JSON text under the key
C8_Witness ==
    /\ cacheOp.op = "get"
    /\ ~cacheOp.failed
    /\ cacheOp.before = Some(TextTruncated)
    /\ cacheOp.value = None

(***************************************************************************)
(* Properties of Cache.set (SpecCache)                                     *)
(***************************************************************************)
\* C9: Cache.set never throws; when the storage write fails the stored
\* contents are left as they were, and the requester that attempted the write
\* still returns the freshly fetched result to its caller.
C9_SetNeverThrows ==
    /\ cacheOp.op = "set" => ~cacheOp.threw
    /\ (cacheOp.op \in {"set", "fetch"} /\ cacheOp.failed) => store = cacheOp.stored
    /\ (cacheOp.op = "fetch" /\ cacheOp.failed /\ Parsable(cacheOp.text[1]))
          => cacheOp.value = JSONparse(cacheOp.text[1]).value

\* a requester whose cache write failed and that returned the fetched report
C9_Witness ==
    /\ cacheOp.op = "fetch"
    /\ cacheOp.failed
    /\ cacheOp.text = Some(JSONstringifyObject(ResultObject(95)))
    /\ cacheOp.value = Some(ResultObject(95))
    /\ store = cacheOp.stored

(***************************************************************************)
(* Properties of the single-flight guard (Spec)                            *)
(***************************************************************************)
\* the effect of the mounted AnalysisReport runs again in this step
ArEffectReruns ==
    /\ ar.mounted
    /\ ar'.mounted
    /\ ar'.inst = ar.inst
    /\ ArDeps(viewLogs', profile') # ArDeps(viewLogs, profile)

\* an earlier fetchReport of the mounted AnalysisReport awaits
\* generateTrainingReport under key
ArAwaits(key) ==
    \E r \in requests : r.kind = "report" /\ r.inst = ar.inst /\ r.key = key

\* C1: when fetchReport runs again for key K while an earlier fetchReport of
\* the component still awaits generateTrainingReport for K and the cache has
\* no entry for K, it returns without calling generateTrainingReport: no
\* further remote call is issued.
C1_NoSecondCall ==
    [][(/\ ArEffectReruns
        /\ Len(viewLogs') > 0
        /\ ArAwaits(ReportKey(viewLogs', profile'))
        /\ Cache_get(store, ReportKey(viewLogs', profile'), FALSE).value = None)
          => (requests' = requests /\ nextReq' = nextReq)]_vars

\* fetchReport ran for K and returned at the busy check, the first call for K
\* being still in flight and the cache empty for K
C1_Witness ==
    /\ ar.mounted
    /\ ar.lastRun.outcome = "busy"
    /\ ar.lastRun.key = Some(ReportKey(viewLogs, profile))
    /\ ArAwaits(ReportKey(viewLogs, profile))
    /\ Cache_get(store, ReportKey(viewLogs, profile), FALSE).value = None

\* C2: across all consumers and component instances, at every moment at most
\* one remote AI call is outstanding for any cache key.
C2_OneOutstandingPerKey ==
    \A r1, r2 \in requests :
        (r1.key = r2.key /\ r1.cw.pc = "calling" /\ r2.cw.pc = "calling")
            => r1 = r2

\* the call awaited by the mounted AnalysisReport settles in this step
ArCallSettles ==
    /\ ar.mounted
    /\ ar'.mounted
    /\ ar'.inst = ar.inst
    /\ ar.isFetching
    /\ ~ar'.isFetching

\* C17: when every attempt of the remote report call fails with a
\* 429-classified error, AnalysisReport shows the rate-limit message, and
\* only after the retry budget is exhausted; a failure that is not a
\* rate-limit failure is shown with the service-unavailable message.
C17_FailureMessages ==
    [][(ArCallSettles /\ ar'.lastCall[1].pc = "thrown") =>
          IF ar'.lastCall[1].rateLimited
          THEN /\ ar'.errorMsg = "rate-limit"
               /\ ar'.lastCall[1].calls = DefaultMaxRetries
          ELSE ar'.errorMsg = "unavailable"]_vars

\* fetchReport of the mounted AnalysisReport runs in this step with logs: at
\* its mount or because a dependency changed
ArFetchReportRuns ==
    /\ ar'.mounted
    /\ ar'.inst # ar.inst \/ (ar.mounted /\ ArEffectReruns)
    /\ Len(viewLogs') > 0

\* the component as fetchReport finds it, and the key it computes
ArBefore == IF ar'.inst = ar.inst THEN ar ELSE ArMounted(ar'.inst)
ArCurrentKey == ReportKey(viewLogs', profile')

\* case (1): the last completed key is the current key and a report is held
ArHolds == ArBefore.lastFetchedKey = Some(ArCurrentKey) /\ ArBefore.report # None

\* case (2): the cache has an entry for the current key
ArCached == Cache_get(store, ArCurrentKey, FALSE).value

ArNoCallBusyUntouched ==
    /\ requests' = requests
    /\ nextReq' = nextReq
    /\ store' = store
    /\ ar'.isFetching = ArBefore.isFetching
    /\ ar'.loading = ArBefore.loading

ArAdoptsCached ==
    /\ ar'.report = ArCached
    /\ ar'.lastFetchedKey = Some(ArCurrentKey)
    /\ ar'.errorMsg = ""

\* C18 as stated: with (1) or (2) no remote call is issued and the busy flag
\* is untouched; whenever the cache has an entry for K the cached value
\* becomes the held report, K the last completed key, the error is cleared.
C18_CachedAlwaysAdopted ==
    [][ArFetchReportRuns =>
          /\ (ArHolds \/ ArCached # None) => ArNoCallBusyUntouched
          /\ ArCached # None => ArAdoptsCached]_vars

\* C18: with (1) or (2) no remote call is issued and the busy flag is
\* untouched; with (1) the component is left as it is; with (2) and not (1)
\* the cached value becomes the held report, K is recorded as last completed
\* key and the error message is cleared.
C18_HeldOrCached ==
    [][ArFetchReportRuns =>
          /\ (ArHolds \/ ArCached # None) => ArNoCallBusyUntouched
          /\ ArHolds =>
               /\ ar'.report = ArBefore.report
               /\ ar'.lastFetchedKey = ArBefore.lastFetchedKey
               /\ ar'.errorMsg = ArBefore.errorMsg
          /\ (~ArHolds /\ ArCached # None) => ArAdoptsCached]_vars

\* fetchReport found an entry for K in the cache while an earlier call of the
\* component was in flight and an error was shown: the entry is adopted, the
\* component stays busy
C18_Witness ==
    /\ ar.mounted
    /\ ar.lastRun.outcome = "cached"
    /\ ar.lastRun.key = Some(ReportKey(viewLogs, profile))
    /\ ar.report = Cache_get(store, ReportKey(viewLogs, profile), FALSE).value
    /\ ar.lastFetchedKey = Some(ReportKey(viewLogs, profile))
    /\ ar.errorMsg = ""
    /\ ar.isFetching
    /\ \E r \in requests : r.kind = "report" /\ r.inst = ar.inst

\* the call r awaited by the mounted AnalysisReport settles in this step
ArSettles(r) ==
    /\ ar.mounted
    /\ ar'.mounted
    /\ ar'.inst = ar.inst
    /\ r.kind = "report"
    /\ r.inst = ar.inst
    /\ \A q \in requests' : q.id # r.id

\* C19: whenever fetchReport marked the guard busy, the busy flag and the
\* loading flag are cleared when its call settles, whatever the outcome, so
\* the component is busy or loading only while its call is in flight; the last
\* completed key becomes K only when a report was obtained and is unchanged
\* on failure.
C19_BusyClearedOnSettle ==
    /\ [](ar.mounted /\ (ar.isFetching \/ ar.loading) =>
            \E r \in requests : r.kind = "report" /\ r.inst = ar.inst)
    /\ [][\A r \in requests :
            ArSettles(r) =>
               /\ ~ar'.isFetching
               /\ ~ar'.loading
               /\ IF ar'.lastCall[1].obtained
                  THEN ar'.lastFetchedKey = Some(r.key) /\ ar'.report # None
                  ELSE /\ ar'.lastFetchedKey = ar.lastFetchedKey
                       /\ ar'.report = ar.report]_vars

\* a call that was issued for K failed after a report for another key had
\* been obtained: not busy, not loading, the last completed key unchanged
C19_Witness ==
    /\ ar.mounted
    /\ ar.lastRun.outcome = "issued"
    /\ ar.lastCall # None
    /\ ~ar.lastCall[1].obtained
    /\ ~ar.isFetching
    /\ ~ar.loading
    /\ ar.errorMsg = "failed"
    /\ ar.report # None
    /\ ar.lastFetchedKey # None
    /\ ar.lastFetchedKey # ar.lastRun.key

\* the last fetchReport of the mounted AnalysisReport ran for the current key
\* and returned at the busy check
ArSkippedBusy ==
    /\ ar.mounted
    /\ ar.lastRun.outcome = "busy"
    /\ ar.lastRun.key = Some(ReportKey(viewLogs, profile))

\* the component holds a report for the current key
ArHoldsCurrent ==
    /\ ar.report # None
    /\ ar.lastFetchedKey = Some(ReportKey(viewLogs, profile))

\* C20: whenever a fetch for the current key K is skipped because the guard
\* is busy, the component eventually holds a report for K (report set, last
\* completed key = K) unless an input changes again, every remote call
\* succeeding; also when K is not the key of the call in flight.
C20_SkippedFetchIsServed == ArSkippedBusy ~> (ArHoldsCurrent \/ ~ArSkippedBusy)

\* C21: when the request key changed while a report call was in flight, the
\* result of that call is ignored by the component (not adopted as the
\* displayed report, not recorded as last completed key), while it is still
\* written to the cache under the key it was requested for.
C21_StaleResultIgnored ==
    [][\A r \in requests :
          (ArSettles(r) /\ r.key # ReportKey(viewLogs, profile)) =>
             /\ ar'.report = ar.report
             /\ ar'.lastFetchedKey = ar.lastFetchedKey
             /\ ar'.lastCall[1].obtained =>
                  \/ Cache_get(store', r.key, FALSE).value # None
                  \/ store' = store]_vars

(***************************************************************************)
(* Properties of the AI requesters (SpecRequesters)                        *)
(***************************************************************************)
\* this step is a call of a requester
RequesterCallStep ==
    /\ cacheOp'.op \in RequesterKinds
    /\ (cacheOp' # cacheOp \/ nextReq' # nextReq)

\* this step is the answer of generateContent to a requester's call
RequesterAnswerStep ==
    /\ cacheOp'.op = "answered"
    /\ cacheOp' # cacheOp

\* the key the requester of this kind computes from its arguments
KeyComputed(kind, key) ==
    \/ kind = "plan" /\ key = PlanKey(profile)
    \/ kind = "analysis" /\ key = AnalysisKey(viewLogs, profile)
    \/ kind = "report" /\ key = ReportKey(viewLogs, profile)
    \/ kind = "insight" /\ \E i \in 1..Len(ExerciseNames) :
                              key = InsightKey(ExerciseNames[i])

\* a call that finds a value under its key returns it with no remote call
HitReturnsCached ==
    (/\ RequesterCallStep
     /\ cacheOp'.key # <<>>
     /\ Cache_get(store, cacheOp'.key, FALSE).value # None)
        => /\ KeyComputed(cacheOp'.op, cacheOp'.key)
           /\ cacheOp'.value = Cache_get(store, cacheOp'.key, FALSE).value
           /\ requests' = requests
           /\ nextReq' = nextReq
           /\ store' = store

\* a remote call starts only on a miss, under the key computed from the
\* arguments, through callWithRetry
MissGoesRemote ==
    (RequesterCallStep /\ requests' # requests)
        => \E r \in requests' \ requests :
              /\ requests' = requests \cup {r}
              /\ r.kind = cacheOp'.op
              /\ KeyComputed(r.kind, r.key)
              /\ Cache_get(store, r.key, FALSE).value = None
              /\ r.cw = callWithRetry(DefaultMaxRetries)

\* the store changes only when a call is answered with a text that parses,
\* and the write succeeds
OnlyParsedResultsWritten ==
    store' # store
        => /\ RequesterAnswerStep
           /\ cacheOp'.value # None
           /\ ~cacheOp'.failed

\* C11 (as stated): every requester computes its key before any remote call,
\* returns a cached value with no remote call, goes through callWithRetry on
\* a miss, writes a successfully parsed result under that same key before
\* returning it, and writes nothing when the call fails or returns no text.
C11_ParsedResultWritten ==
    [][/\ HitReturnsCached
       /\ MissGoesRemote
       /\ OnlyParsedResultsWritten
       /\ (RequesterAnswerStep /\ cacheOp'.value # None)
            => \E r \in requests \ requests' :
                  /\ r.key = cacheOp'.key
                  /\ r.cw.pc = "calling"
                  /\ store' = setItem(store, ItemName(r.key),
                                      JSONstringify(cacheOp'.value))]_vars

\* C11 (amended): as above, but the parsed result is in the cache under the
\* key only when the storage write succeeds; when the write fails the result
\* is returned all the same and the store is left as it was.
C11_CacheProtocol ==
    [][/\ HitReturnsCached
       /\ MissGoesRemote
       /\ OnlyParsedResultsWritten
       /\ (RequesterAnswerStep /\ cacheOp'.value # None)
            => \E r \in requests \ requests' :
                  /\ r.key = cacheOp'.key
                  /\ r.cw.pc = "calling"
                  /\ store' = IF cacheOp'.failed THEN store
                              ELSE setItem(store, ItemName(r.key),
                                           JSONstringify(cacheOp'.value))]_vars

\* generateFitnessPlan returned the plan that its one earlier remote call
\* wrote under the key, without a second remote call
C11_Witness ==
    /\ cacheOp.op = "plan"
    /\ cacheOp.value # None
    /\ requests = {}
    /\ nextReq = 2
    /\ getItem(store, ItemName(PlanKey(profile))) = Some(JSONstringify(cacheOp.value))

\* C12: once the calories field has been edited manually, no automatic
\* estimate is written afterwards, whatever the interleaving of duration and
\* exercise changes, timer firings and manual edits. (The estimates written
\* by the timer callback are recorded in wl.estimates.)
C12_NoEstimateAfterManualEdit ==
    [][wl.isManual => wl'.estimates = wl.estimates]_vars

\* C13: for a fixed body weight and exercise list the estimate written by the
\* timer is monotonically non-decreasing in the total duration, and the rest
\* time it uses is max(0, duration - active time), never negative (so the
\* estimate is never below the calories of the recorded exercises).
C13_EstimateMonotone ==
    LET est == wl.estimates
    IN /\ \A i, j \in 1..Len(est) :
             (/\ est[i].exercises = est[j].exercises
              /\ est[i].totalDurationMin <= est[j].totalDurationMin)
             => est[i].calories <= est[j].calories
       /\ \A i \in 1..Len(est) :
             /\ restTime(est[i].totalDurationMin, est[i].exercises) >= 0
             /\ restTime(est[i].totalDurationMin, est[i].exercises)
                  >= 2 * est[i].totalDurationMin - totalActiveTime(est[i].exercises)
             /\ est[i].exercises # <<>>
                => est[i].calories
                     >= Round(totalActiveMETTime(est[i].exercises) * wl.userWeight, 1200)

\* two estimates of one exercise list: a duration shorter than the active
\* time (rest clamped at 0) and a longer one with a larger estimate
C13_Witness ==
    LET est == wl.estimates
    IN /\ Len(est) = 2
       /\ est[1].exercises = est[2].exercises
       /\ est[1].exercises # <<>>
       /\ est[1].totalDurationMin < est[2].totalDurationMin
       /\ 2 * est[1].totalDurationMin < totalActiveTime(est[1].exercises)
       /\ restTime(est[1].totalDurationMin, est[1].exercises) = 0
       /\ restTime(est[2].totalDurationMin, est[2].exercises) > 0
       /\ est[1].calories < est[2].calories
       /\ wl.calories = Some(est[1].calories)

\* C14: the baseline of the weight trend is the weight of an earliest-dated
\* sample of the history, whatever the stored order; with an empty or absent
\* history it is the current weight and the delta is 0; the delta is current
\* weight minus baseline, shown as favorable exactly when it is <= 0.
C14_WeightTrend ==
    dash.view # None =>
       LET v == dash.view[1]
           pf == dash.profile
           h == IF pf.weightHistory = None THEN <<>> ELSE pf.weightHistory[1]
       IN /\ h = <<>> => v.baselineWeight = pf.weight /\ v.rawChange = 0
          /\ h # <<>> =>
               \E i \in 1..Len(h) :
                  /\ v.baselineWeight = h[i].weight
                  /\ \A j \in 1..Len(h) : h[i].date <= h[j].date
                  /\ \A j \in 1..Len(h) :
                        h[j].date = h[i].date /\ h[j].weight # h[i].weight => i < j
          /\ v.rawChange = pf.weight - v.baselineWeight
          /\ v.currentWeight = pf.weight
          /\ (v.changeColor = "text-emerald-500") <=> (v.rawChange <= 0)

\* a rendered history stored latest first, whose earliest sample (the last
\* stored) is heavier than the current weight: favorable
C14_Witness ==
    /\ dash.view # None
    /\ dash.profile.weightHistory # None
    /\ LET h == dash.profile.weightHistory[1]
       IN /\ Len(h) = 3
          /\ h[1].date > h[2].date /\ h[2].date > h[3].date
          /\ h[1].weight # h[3].weight
          /\ dash.view[1].baselineWeight = h[3].weight
          /\ dash.view[1].rawChange < 0
          /\ dash.view[1].changeColor = "text-emerald-500"

\* C15: whenever a backend response has status 401 or 403 the token is
\* removed, no call is issued in the same step (the request is not retried)
\* and the page is reloaded; the reloaded App without a token is in the
\* unauthenticated state with no call in flight. So App shows authenticated
\* views without a token only while that reload is pending. This holds for
\* every operation, the reads that turn failures into [] or null included.
UnauthorizedResponse ==
    /\ session'.handled = session.handled + 1
    /\ session'.last # None
    /\ session'.last[1].status \in {401, 403}

C15_UnauthorizedEndsSession ==
    /\ [](session.isAuthenticated /\ ~session.reloading => session.token)
    /\ [][/\ UnauthorizedResponse =>
               /\ ~session'.token
               /\ session'.reloading
               /\ session'.nextCall = session.nextCall
               /\ session'.calls \subseteq session.calls
          /\ (session.reloading /\ ~session'.reloading /\ ~session.token) =>
               /\ ~session'.isAuthenticated
               /\ ~session'.isAppLoading
               /\ session'.calls = {}]_vars

\* a read of loadAppData was answered 401 and the page was reloaded: the Auth
\* screen, no token
C15_Witness ==
    /\ ~session.token
    /\ ~session.isAuthenticated
    /\ ~session.isAppLoading
    /\ ~session.reloading
    /\ session.last = Some([op |-> "getWorkoutLogs", status |-> 401])
    /\ session.handled = 0
    /\ session.calls = {}
    /\ session.nextCall = 1

\* C16: in ExerciseDetail each result is matched to the request that produced
\* it: once no insight request of the instance is in flight, the displayed
\* insight and the loading / error flags belong to the selected exercise,
\* never to a previously selected one whose response arrived later.
C16_InsightOfSelectedExercise ==
    (/\ ed.mounted
     /\ ed.selectedExercise # <<>>
     /\ \A r \in requests : ~(r.kind = "insight" /\ r.inst = ed.inst))
    => /\ ed.shownFor = InsightKey(ed.selectedExercise)
       /\ ~ed.loadingInsight

\* C22: in the debounced estimation a change of duration or exercises cancels
\* the pending timer before a new one is scheduled, so a value written by a
\* timer is computed from the inputs current when it fires, and the
\* 'calculating' indicator is true only while a timer is pending.
C22_CalculatingOnlyWhileTimerPending ==
    /\ [](wl.isCalculating => wl.timer # None)
    /\ [](wl.timer # None =>
            /\ wl.timer[1].totalDurationMin = parseIntDuration(wl)
            /\ wl.timer[1].exercises = wl.exercises)
    /\ [][wl'.estimates # wl.estimates =>
            /\ wl'.estimates[1].totalDurationMin = parseIntDuration(wl)
            /\ wl'.estimates[1].exercises = wl.exercises
            /\ wl'.timer = None]_vars

\* C28: syncStatus reflects the outstanding save: the delayed reset to 'idle'
\* scheduled by an earlier successful save never changes the status while a
\* later save is outstanding ('syncing') or has failed ('error')
C28_IdleResetKeepsLaterStatus ==
    [][(idleTimers' < idleTimers /\ (addPending # {} \/ syncStatus = "error")) =>
          syncStatus' = syncStatus]_vars

\* the store in which value is cached under key, and nothing else
CachedUnder(key, value) == Cache_set(<<>>, key, value, FALSE).store

\* C27: a same-day merge leaves the request keys unchanged: it preserves
\* logs.length and logs[0].date, so the dependencies of the AnalysisReport
\* effect are unchanged (the effect does not run again), and
\* generateTrainingReport and analyzeWorkoutHistory make no remote call and
\* return the value cached before the merge
C27_MergeKeepsRequestKey ==
    [][\A newLog \in addPending :
          (/\ addPending' = addPending \ {newLog}
           /\ syncStatus' = "synced" /\ idleTimers' = idleTimers + 1
           /\ findExistingIndex(logs, newLog) >= 1
           /\ datesOf(logs) \in ViewLogs) =>
             /\ Len(logs') = Len(logs)
             /\ logs'[1].date = logs[1].date
             /\ datesOf(logs') \in ViewLogs
             /\ \A pf \in Profiles :
                   /\ ArDeps(datesOf(logs'), pf) = ArDeps(datesOf(logs), pf)
                   /\ ReportKey(datesOf(logs'), pf) = ReportKey(datesOf(logs), pf)
                   /\ AnalysisKey(datesOf(logs'), pf) = AnalysisKey(datesOf(logs), pf)
                   /\ \A n \in Scores :
                         /\ generateTrainingReport(datesOf(logs'), pf,
                               CachedUnder(ReportKey(datesOf(logs), pf), Some(ResultObject(n))))
                              = Immediate(Some(ResultObject(n)))
                         /\ analyzeWorkoutHistory(datesOf(logs'), pf,
                               CachedUnder(AnalysisKey(datesOf(logs), pf), Some(ResultObject(n))))
                              = Immediate(Some(ResultObject(n)))]_vars

\* two logged days, the later one first, and one of them holds a merged log
C27_Witness ==
    /\ Len(logs) = 2
    /\ datesOf(logs) \in ViewLogs
    /\ \E i \in 1..2 : Len(logs[i].exercises) >= 2

\* C26: the client's log list mirrors the mock backend's stored list: after
\* successful handleAddLog operations and simulateData runs the local list
\* equals the list backend.getWorkoutLogs would return
C26_LocalMirrorsBackend == addPending = {} => logs = fg_logs

\* C25: after any sequence of log additions the log list is in
\* most-recent-first order, so logs[0] is the log with the latest date
C25_LogsMostRecentFirst ==
    \A i \in 1..Len(logs), j \in 1..Len(logs) : i < j => logs[i].date >= logs[j].date

\* C24: cache writes are idempotent per key: a write to a cache key that
\* already holds a value stores the same value again
C24_CacheWritesIdempotent ==
    [][\A name \in DOMAIN store \cap DOMAIN store' : store'[name] = store[name]]_vars

(***************************************************************************)
(* Properties of the logger's submissions                                  *)
(***************************************************************************)
\* C23: log additions are serialized: at every moment at most one
\* backend.addWorkoutLog call issued from the WorkoutLogger is outstanding
C23_AtMostOneAddOutstanding == Cardinality(addPending) <= 1

\* C29: a failed log save changes nothing but the sync status: the log list
\* is unchanged, syncStatus becomes 'error', and the form the entry was
\* submitted from stays open with the entered data
C29_FailedSaveKeepsForm ==
    [][\A newLog \in addPending :
          (addPending' = addPending \ {newLog} /\ syncStatus' = "error"
             /\ form.lastSave # form'.lastSave
             /\ \E s \in form.submits : s.id = newLog.id /\ s.mounted) =>
                /\ logs' = logs
                /\ form'.open
                /\ form'.entry = Some(newLog)]_vars

(***************************************************************************)
(* Properties of logout and the next login                                 *)
(***************************************************************************)
\* C30: after handleLogout the token is absent, isAuthenticated is false and
\* the log list is empty, and after a login as another user the profile
\* shown does not come from the previous user's session: it is the new
\* user's stored profile or the default one
C30_NothingOfPreviousUser ==
    /\ [][(session.isAuthenticated /\ ~session'.isAuthenticated /\ ~session.reloading) =>
             (~session'.token /\ logs' = <<>>)]_vars
    /\ []((session.isAuthenticated /\ ~session.isAppLoading) =>
             \/ session.profileOf \in {0, session.user}
             \/ profile = InitialProfile)

====
